---- MODULE Spec2Model ----
(***************************************************************************)
(* The output sinks of the render pipeline,                                *)
(* lib/jxl/render_pipeline/stage_write.cc:                                 *)
(*   WriteToU8Stage            (RawBufferSink)                             *)
(*   WriteToPixelCallbackStage (PixelCallbackSink)                         *)
(*   WriteToImageBundleStage   (FrameBufferSink)                           *)
(*   WriteToImage3FStage       (PlanarBufferSink)                          *)
(*                                                                         *)
(* A float sample is the integer numerator of a fraction with denominator  *)
(* SampleDen, a power of two, so every sample, its clamp and its product   *)
(* with 255 or 65535 is exact in binary32.  NaN is not in the domain.      *)
(* Bytes are 0..255.  size_t arithmetic is taken modulo SizeMod where the  *)
(* code can wrap.                                                          *)
(***************************************************************************)
EXTENDS Integers, Sequences, FiniteSets, TLC

VARIABLES
  sink,        \* which stage was constructed: "u8", "cb", "ib" or "i3f"
  cfg,         \* the members set by the constructor (and the build's target)
  img,         \* which input image the pipeline feeds
  rgb,         \* WriteToU8Stage: the caller's buffer rgb_[0 .. stride*height-1]
  run_opaque,  \* WriteToPixelCallbackStage::run_opaque_ (0 is nullptr)
  num_threads, \* size of tempf_ (0 before PrepareForThreads allocates)
  inits,       \* handles returned by pixel_callback_.Init so far, in order
  destroys,    \* handles passed to pixel_callback_.destroy so far, in order
  alive,       \* FALSE once the destructor has run
  call,        \* the most recent call made on the stage, with its arguments
  reads,       \* channels whose input row the most recent call obtained
  writes,      \* offsets of rgb_ the most recent call stored to
  batches,     \* the batches of the most recent ProcessRow of the callback sink
  runs,        \* the pixel_callback_.run invocations of the most recent call
  done,        \* the (row, chunk) units the driver has handed to the stage
  next,        \* the driver's plan: its next chunk, or the cut and border of
               \* every row, or the SetInputSizes calls made
  flipbuf,     \* the batch the flip step of ProcessRow is applied to (SpecFlip)
  flight,      \* PixelCallbackSink: per worker, the ProcessRow call it is in
  scratch,     \* PixelCallbackSink: tempf_ and tempu_, per index
  deliveries,  \* every (x, y, pixel_count, data) handed to run so far, a bag
  frame,       \* the ImageBundle or Image3F the image sinks write to
  stores       \* how often each location of the target was stored to so far

vars == <<sink, cfg, img, rgb, run_opaque, num_threads, inits, destroys, alive,
          call, reads, writes, batches, runs, done, next,
          flipbuf, flight, scratch, deliveries, frame, stores>>

\* The variables only the calls of several workers and the image sinks use.
aux == <<flight, scratch, deliveries, frame, stores>>

-----------------------------------------------------------------------------
(* Bounds of the model *)

\* RawBufferSink: width in pixels of the wide frame (a NEON store of a whole
\* register, a store of 4 pixels and a tail need 9 pixels).
MaxU8Width == 9
\* ypos runs over 0 .. height-1+MaxOverRows (rows of an over-allocated tile grid).
MaxOverRows == 1
\* Channel indices asked of GetChannelMode: 0 .. MaxChannel.
MaxChannel == 5
\* PixelCallbackSink: width in pixels of the small frame.
MaxCbWidth == 3
\* PixelCallbackSink: the wide frame is 2 * kMaxPixelsPerCall + MaxTail pixels wide,
\* and the driver cuts a row at most MaxTail pixels before its end.
MaxTail == 2
\* PrepareForThreads is called for two worker threads.
ThreadCounts == {2}

-----------------------------------------------------------------------------
(* Samples *)

SampleDen == 2 * 2 * 2
One == SampleDen

\* Numerators of the colour samples of the input planes: -2/8 .. 10/8.
ColourDomain == -2 .. 10
\* Numerators of the samples of an extra (alpha) plane: 0, 1/4, 1/2, 1.
AlphaDomain == <<0, 2, 4, 8>>

Min(a, b) == IF a <= b THEN a ELSE b
Max(a, b) == IF a >= b THEN a ELSE b

\* The images the pipeline can feed.  Image 0 is the 2x2 RGBA tile with
\* R = [0.0, 0.5, 1.0, 0.25] and alpha 1.0; any other number is the seed of a
\* pattern in which neighbouring pixels and channels differ.
TileR == <<0, 4, 8, 2>>

\* The sample of channel c at column x of row y (beyond the frame: whatever the
\* driver's padding holds, here the continuation of the pattern).
Pix(im, c, x, y) ==
  IF im = 0
    THEN IF c = 0 THEN TileR[((2 * y + x) % 4) + 1]
         ELSE IF c >= 3 THEN One
         ELSE ((3 * x + 5 * y + 7 * c) % 13) - 2
    ELSE IF c >= 3 THEN AlphaDomain[((x + 2 * y + c + im) % 4) + 1]
         ELSE ((3 * x + 5 * y + 7 * c + im) % 13) - 2

-----------------------------------------------------------------------------
(* Highway operations on one lane *)

\* hwy Clamp(v, lo, hi) = Min(Max(lo, v), hi); the stage calls it as
\* Clamp(zero, sample, one).
Clamp(v, lo, hi) == Min(Max(lo, v), hi)

\* hwy NearestInt of num/den, num >= 0: round to nearest, ties to even.
NearestInt(num, den) ==
  LET q == num \div den
      r == num % den
  IN  IF 2 * r < den THEN q
      ELSE IF 2 * r > den THEN q + 1
      ELSE IF q % 2 = 0 THEN q ELSE q + 1

\* U8FromU32: the low 8 bits.
U8FromU32(v) == v % 256

\* Faulty variant of ToU8: the product is truncated, not rounded.
ToU8Truncating(v) == U8FromU32((Clamp(0, v, One) * 255) \div SampleDen)

\* Mul(Clamp(zero, LoadU(row + x), one), Set(255.0f)), NearestInt, U8FromU32.
ToU8(v) == U8FromU32(NearestInt(Clamp(0, v, One) * 255, SampleDen))

\* Faulty variant of BeyondHeight: the row at height_ is processed.
BeyondHeightOffByOne(c, ypos) == ypos > c.height

\* "if (ypos >= height_) return;", the first statement of ProcessRow of both
\* WriteToU8Stage and WriteToPixelCallbackStage.
BeyondHeight(c, ypos) == ypos >= c.height

-----------------------------------------------------------------------------
(* WriteToU8Stage (RawBufferSink) *)

\* What a byte of the caller's buffer holds before the stage stores to it.
Untouched == 0 - 1

\* Lanes(d) for d = HWY_CAPPED(float, 4): 1 on HWY_SCALAR, 4 on every other
\* target.
Targets == {"SCALAR", "NEON", "OTHER"}
Lanes(target) == IF target = "SCALAR" THEN 1 ELSE 4

RoundUpTo(x, n) == ((x + n - 1) \div n) * n

\* Faulty variant of StoreRGBA: the NEON store of a whole register is taken
\* whenever a full vector of 4 pixels remains.
StoreRGBAEarlyFull(target, r, g, b, a, alpha, n, extra, buf) ==
  LET mul == IF alpha THEN 4 ELSE 3
      lane(k, i) == CASE k = 0 -> r[i] [] k = 1 -> g[i] [] k = 2 -> b[i]
                      [] OTHER -> a[i]
      Pixels(cnt) ==
        [o \in {buf + mul * i + k : i \in 0 .. cnt - 1, k \in 0 .. mul - 1} |->
           lane((o - buf) % mul, (o - buf) \div mul)]
  IN  CASE target = "SCALAR" -> Pixels(1)
        [] target = "NEON"   -> IF extra >= 4 THEN Pixels(8) ELSE Pixels(n)
        [] OTHER             -> Pixels(n)

\* StoreRGBA: the stores it makes, as a function from offsets of rgb_ to
\* bytes.  r, g, b, a are the raw registers, lanes 0..7 (on NEON the register
\* of a 4-lane uint8 vector is a uint8x8_t).
StoreRGBA(target, r, g, b, a, alpha, n, extra, buf) ==
  LET mul == IF alpha THEN 4 ELSE 3
      lane(k, i) == CASE k = 0 -> r[i] [] k = 1 -> g[i] [] k = 2 -> b[i]
                      [] OTHER -> a[i]
      Pixels(cnt) ==
        [o \in {buf + mul * i + k : i \in 0 .. cnt - 1, k \in 0 .. mul - 1} |->
           lane((o - buf) % mul, (o - buf) \div mul)]
  IN  CASE target = "SCALAR" -> Pixels(1)
        [] target = "NEON"   -> IF extra >= 8 THEN Pixels(8) ELSE Pixels(n)
        [] OTHER             -> Pixels(n)

\* Faulty variant of Apply: a byte once stored keeps its value.
ApplyKeepingFirst(mem, st) ==
  [o \in DOMAIN mem |->
     IF o \in DOMAIN st /\ mem[o] = Untouched THEN st[o] ELSE mem[o]]

\* One store after another: the later store wins.
Apply(mem, st) ==
  LET dom == DOMAIN st
  IN  [o \in DOMAIN mem |-> IF o \in dom THEN st[o] ELSE mem[o]]

\* The number of stores to each byte after one more StoreRGBA.
Counted(cnt, st) ==
  LET dom == DOMAIN st
  IN  [o \in DOMAIN cnt |-> IF o \in dom THEN cnt[o] + 1 ELSE cnt[o]]

\* Faulty variant of U8Alpha: the alpha plane is loaded whether or not the
\* stage has alpha.
U8AlphaAlwaysLoaded(c, im, col, ypos) == ToU8(Pix(im, c.alpha_c, col, ypos))

\* row_in_a ? Mul(Clamp(zero, LoadU(d, row_in_a + x), one), mul)
\*          : Set(d, 255.0f), then NearestInt and U8FromU32: lane i of a8.
U8Alpha(c, im, col, ypos) ==
  IF c.has_alpha THEN ToU8(Pix(im, c.alpha_c, col, ypos))
  ELSE U8FromU32(NearestInt(255 * SampleDen, SampleDen))

\* The loop of WriteToU8Stage::ProcessRow from column x on: mem is rgb_, wr the
\* offsets stored to so far, cnt the number of stores to each offset.  junk is
\* what the lanes above Lanes(d) of a raw
\* register hold.
RECURSIVE U8Loop(_, _, _, _, _, _, _, _)
U8Loop(c, im, xsize, xpos, ypos, junk, x, st) ==
  LET L    == Lanes(c.target)
      x1   == RoundUpTo(xsize, L)
      bytes == IF c.rgba THEN 4 ELSE 3
      base_ptr == ypos * c.stride + bytes * xpos
      Vec(ch) == [i \in 0 .. 7 |->
                    IF i < L THEN ToU8(Pix(im, ch, xpos + x + i, ypos)) ELSE junk]
      a8 == [i \in 0 .. 7 |->
               IF i < L THEN U8Alpha(c, im, xpos + x + i, ypos) ELSE junk]
      n == xsize - x
      stored == IF n >= L
                  THEN StoreRGBA(c.target, Vec(0), Vec(1), Vec(2), a8, c.rgba,
                                 L, n, base_ptr + bytes * x)
                  ELSE StoreRGBA(c.target, Vec(0), Vec(1), Vec(2), a8, c.rgba,
                                 n, n, base_ptr + bytes * x)
  IN  IF x >= x1 THEN st
      ELSE U8Loop(c, im, xsize, xpos, ypos, junk, x + L,
                  [mem |-> Apply(st.mem, stored),
                   wr  |-> st.wr \cup DOMAIN stored,
                   cnt |-> Counted(st.cnt, stored)])

\* The input rows WriteToU8Stage::ProcessRow obtains with GetInputRow.
U8InputRows(c) == {0, 1, 2} \cup (IF c.has_alpha THEN {c.alpha_c} ELSE {})

\* WriteToU8Stage::GetChannelMode
U8GetChannelMode(c, ch) ==
  IF ch < 3 \/ (c.has_alpha /\ ch = c.alpha_c) THEN "kInput" ELSE "kIgnored"

\* The frames a caller's buffer is made for: the 2x2 tile with stride 8 when
\* rgba, and a wide frame whose rows carry one byte of padding.
U8Scenes ==
  { [width |-> 2, height |-> 2, pad |-> 0, img |-> 0],
    [width |-> MaxU8Width, height |-> 2, pad |-> 1, img |-> 1] }

U8Configs ==
  { [stride |-> (IF rgba THEN 4 ELSE 3) * sc.width + sc.pad,
     height |-> sc.height, rgba |-> rgba, has_alpha |-> has_alpha,
     alpha_c |-> alpha_c, target |-> target,
     width |-> sc.width, split |-> split, img |-> sc.img] :
    sc \in U8Scenes, rgba \in BOOLEAN, has_alpha \in BOOLEAN,
    alpha_c \in {3, 4}, target \in Targets, split \in 1 .. MaxU8Width }

NoCall == [op |-> "none"]
\* tempf_ and tempu_ of a stage that has allocated none (every stage but the
\* callback sink has none).
NoScratch == [f |-> <<>>, u |-> <<>>]

U8Init ==
  /\ sink = "u8"
  /\ cfg \in {c \in U8Configs : c.split <= c.width}
  /\ img = cfg.img
  /\ rgb = [o \in 0 .. cfg.stride * cfg.height - 1 |-> Untouched]
  /\ run_opaque = 0 /\ num_threads = 0 /\ inits = <<>> /\ destroys = <<>>
  /\ alive = TRUE
  /\ call = NoCall /\ reads = {} /\ writes = {} /\ batches = <<>> /\ runs = <<>>
  /\ done = {} /\ next = NoCall /\ flipbuf = NoCall
  /\ flight = {} /\ scratch = NoScratch /\ deliveries = <<>> /\ frame = NoCall
  /\ stores = [o \in 0 .. cfg.stride * cfg.height - 1 |-> 0]

\* The driver hands every row of the frame to the stage in two chunks,
\* columns [0, split) and [split, width), each once and in any order; rows at
\* or beyond height_ come from an over-allocated tile grid.  JXL_DASSERT:
\* xextra is 0.
U8Chunks(c) == {<<0, c.split>>} \cup
               (IF c.split < c.width THEN {<<c.split, c.width - c.split>>} ELSE {})

U8ProcessRow ==
  /\ sink = "u8"
  /\ \E ch \in U8Chunks(cfg), ypos \in 0 .. cfg.height - 1 + MaxOverRows,
        junk \in {0, 255} :
       LET xpos == ch[1]
           xsize == ch[2]
           unit == <<ypos, xpos>>
       IN
       /\ unit \notin done
       /\ call' = [op |-> "ProcessRow", xextra |-> 0, xsize |-> xsize,
                   xpos |-> xpos, ypos |-> ypos, thread_id |-> 0]
       /\ IF BeyondHeight(cfg, ypos)
            THEN /\ UNCHANGED <<rgb, done, stores>>
                 /\ reads' = {} /\ writes' = {}
            ELSE LET st == U8Loop(cfg, img, xsize, xpos, ypos, junk, 0,
                                  [mem |-> rgb, wr |-> {}, cnt |-> stores])
                 IN  /\ rgb' = st.mem
                     /\ writes' = st.wr
                     /\ stores' = st.cnt
                     /\ reads' = U8InputRows(cfg)
                     /\ done' = done \cup {unit}
  /\ runs' = <<>> /\ batches' = <<>>
  /\ UNCHANGED <<flight, scratch, deliveries, frame>>
  /\ UNCHANGED <<sink, cfg, img, run_opaque, num_threads, inits, destroys,
                 alive, next, flipbuf>>

-----------------------------------------------------------------------------
(* WriteToPixelCallbackStage (PixelCallbackSink) *)

kMaxPixelsPerCall == 1024

\* size_t arithmetic wraps; every quantity of the model stays far below
\* SizeMod, so a wrapped difference is larger than any of them, as in the code.
SizeMod == 2 ^ 30

Orientations == {"kIdentity", "kFlipHorizontal", "kRotate180", "kFlipVertical",
                 "kTranspose", "kRotate90", "kAntiTranspose", "kRotate270"}
DataTypes == {"JXL_TYPE_FLOAT", "JXL_TYPE_UINT8", "JXL_TYPE_UINT16",
              "JXL_TYPE_FLOAT16"}

ShouldFlipX(undo_orientation) ==
  undo_orientation \in {"kFlipHorizontal", "kRotate180", "kRotate270",
                        "kAntiTranspose"}
ShouldFlipY(undo_orientation) ==
  undo_orientation \in {"kFlipVertical", "kRotate180", "kRotate90",
                        "kAntiTranspose"}
ShouldTranspose(undo_orientation) ==
  undo_orientation \in {"kTranspose", "kRotate90", "kRotate270",
                        "kAntiTranspose"}

\* The constructor: the members it sets from its arguments.
CbStage(width, height, num_channels, has_alpha, unpremul_alpha, alpha_c, swap_endianness, undo_orientation, data_type) ==
  [width |-> width, height |-> height, num_channels |-> num_channels,
   num_color |-> IF num_channels < 3 THEN 1 ELSE 3,
   want_alpha |-> (num_channels = 2 \/ num_channels = 4),
   has_alpha |-> has_alpha, unpremul_alpha |-> unpremul_alpha,
   alpha_c |-> alpha_c, swap_endianness |-> swap_endianness,
   flip_x |-> ShouldFlipX(undo_orientation),
   flip_y |-> ShouldFlipY(undo_orientation),
   transpose |-> ShouldTranspose(undo_orientation),
   data_type |-> data_type, undo_orientation |-> undo_orientation]

\* floor(log2(m)), m >= 1
RECURSIVE Log2(_)
Log2(m) == IF m < 2 THEN 0 ELSE 1 + Log2(m \div 2)

Abs(v) == IF v < 0 THEN 0 - v ELSE v

\* The four bytes, lowest first, of the binary32 holding v/SampleDen.  The
\* samples of the model have at most 24 significant bits.
F32Bytes(v) ==
  IF v = 0 THEN <<0, 0, 0, 0>>
  ELSE LET m == Abs(v)
           p == Log2(m)
           e == p - Log2(SampleDen) + 127
           mant == IF p <= 23 THEN (m - 2 ^ p) * 2 ^ (23 - p)
                   ELSE (m - 2 ^ p) \div 2 ^ (p - 23)
       IN  <<mant % 256, (mant \div 256) % 256,
             (mant \div 65536) + 128 * (e % 2),
             (IF v < 0 THEN 128 ELSE 0) + e \div 2>>

\* DemoteTo(df16, v): the two bytes, lowest first, of the binary16 nearest
\* v/SampleDen; infinity from 65520 up.  The finite samples of the model have
\* at most 11 significant bits and are not subnormal.
F16Bytes(v) ==
  IF v = 0 THEN <<0, 0>>
  ELSE LET m == Abs(v)
           p == Log2(m)
           e == p - Log2(SampleDen) + 15
           s == IF v < 0 THEN 128 ELSE 0
           mant == IF p <= 10 THEN (m - 2 ^ p) * 2 ^ (10 - p)
                   ELSE (m - 2 ^ p) \div 2 ^ (p - 10)
       IN  IF e >= 31 THEN <<0, s + 124>>
           ELSE <<mant % 256, s + 4 * e + mant \div 256>>

\* Mul(Clamp(zero, v, one), Set(65535.0f)), NearestInt, DemoteTo(du16, .)
U16Bytes(v) ==
  LET u == NearestInt(Clamp(0, v, One) * 65535, SampleDen)
  IN  <<u % 256, u \div 256>>

\* Mul(Clamp(zero, v, one), Set(255.0f)), NearestInt, DemoteTo(du8, .)
U8Bytes(v) == <<NearestInt(Clamp(0, v, One) * 255, SampleDen)>>

\* BSwapFloat, JXL_BSWAP16: the bytes of one sample in reverse order.
BSwap(b) == [i \in 1 .. Len(b) |-> b[Len(b) + 1 - i]]

\* The narrowing and byte swap of one sample of temp, as the bytes the callback
\* finds at the sample's place in the output buffer.
ConvertSample(data_type, swap_endianness, v) ==
  CASE data_type = "JXL_TYPE_FLOAT" ->
         IF swap_endianness THEN BSwap(F32Bytes(v)) ELSE F32Bytes(v)
    [] data_type = "JXL_TYPE_UINT16" ->
         IF swap_endianness THEN BSwap(U16Bytes(v)) ELSE U16Bytes(v)
    [] data_type = "JXL_TYPE_FLOAT16" ->
         IF swap_endianness THEN BSwap(F16Bytes(v)) ELSE F16Bytes(v)
    [] data_type = "JXL_TYPE_UINT8" -> U8Bytes(v)

\* Every value a sample of temp takes: an input sample, or a colour sample
\* divided by an alpha of the alpha domain.  ConvertSample, tabulated.
TempValues ==
  {v * k : v \in ColourDomain, k \in {1, 2, 4, 2 ^ 26}} \cup 0 .. One
Converted ==
  [data_type \in DataTypes, swap_endianness \in BOOLEAN |->
     [v \in TempValues |-> ConvertSample(data_type, swap_endianness, v)]]
Convert(c, v) == Converted[c.data_type, c.swap_endianness][v]

\* UnpremultiplyAlpha(temp, num_color, xlen) of lib/jxl/alpha.cc: every colour
\* sample of a pixel divided by the pixel's alpha, the alpha kept away from
\* zero (kSmallAlpha, 1/2^26).  The alphas of the model are 0 or powers of two, so the
\* quotient is exact.
UnpremultiplyAlpha(temp, num_color, num_channels, xlen) ==
  [j \in 1 .. Len(temp) |->
     LET ch == (j - 1) % num_channels
         a  == temp[j - ch + num_color]
     IN  IF ch >= num_color THEN temp[j]
         ELSE IF a > 0 THEN (temp[j] * SampleDen) \div a
         ELSE temp[j] * 2 ^ 26]

\* Faulty variant of FlipPixels: temp[i + c] = temp[last - i + c], an
\* assignment where the code swaps.
FlipPixelsOneWay(temp, num_channels, xlen) ==
  LET last == (xlen - 1) * num_channels
      num  == (xlen \div 2) * num_channels
  IN  [j \in 1 .. Len(temp) |->
         LET i == ((j - 1) \div num_channels) * num_channels
             ch == (j - 1) % num_channels
         IN  IF i < num THEN temp[last - i + ch + 1] ELSE temp[j]]

\* Faulty variant of FlipPixels: the last sample of a pixel (its alpha) stays
\* where it is.
FlipPixelsColourOnly(temp, num_channels, xlen) ==
  LET last == (xlen - 1) * num_channels
      num  == (xlen \div 2) * num_channels
  IN  [j \in 1 .. Len(temp) |->
         LET i == ((j - 1) \div num_channels) * num_channels
             ch == (j - 1) % num_channels
         IN  IF (i < num \/ last - i < num) /\ ch < num_channels - 1
               THEN temp[last - i + ch + 1]
               ELSE temp[j]]

\* The loop "if (flip_x_)" of ProcessRow, "for (i = 0; i < num; i +=
\* num_channels_) std::swap(temp[i + c], temp[last - i + c])": the sample at
\* i + c with i < num and the sample at last - i + c change places, every
\* other sample stays.  temp[j] of the model is temp[j - 1] of the code.
FlipPixels(temp, num_channels, xlen) ==
  LET last == (xlen - 1) * num_channels
      num  == (xlen \div 2) * num_channels
  IN  [j \in 1 .. Len(temp) |->
         LET i == ((j - 1) \div num_channels) * num_channels
             ch == (j - 1) % num_channels
         IN  IF i < num \/ last - i < num THEN temp[last - i + ch + 1]
             ELSE temp[j]]

\* Faulty variant of FlipStart: the mirrored column of xstart alone.
FlipStartOfFirst(width, xstart, xlen) == (width - 1 - xstart) % SizeMod

\* Faulty variant of FlipStart: the batch is taken to start the row.
FlipStartOfRow(width, xstart, xlen) == (width - xlen) % SizeMod

\* xstart = width_ - xstart - xlen
FlipStart(width, xstart, xlen) == (width - xstart - xlen) % SizeMod

\* Faulty variant of WriteToCallback: under transpose every invocation gets
\* the pointer to the first pixel.
WriteToCallbackSamePointer(c, opaque, thread_id, ypos, xstart, xlen, b) ==
  IF c.transpose
    THEN [i \in 1 .. xlen |->
            [opaque |-> opaque, thread_id |-> thread_id, x |-> ypos,
             y |-> (xstart + (i - 1)) % SizeMod, num_pixels |-> 1,
             batch |-> b, at |-> 0]]
    ELSE << [opaque |-> opaque, thread_id |-> thread_id, x |-> xstart,
             y |-> ypos, num_pixels |-> xlen, batch |-> b, at |-> 0] >>

\* Faulty variant of WriteToCallback: every pixel of a transposed batch is
\* delivered at the row of the first.
WriteToCallbackOneRow(c, opaque, thread_id, ypos, xstart, xlen, b) ==
  IF c.transpose
    THEN [i \in 1 .. xlen |->
            [opaque |-> opaque, thread_id |-> thread_id, x |-> ypos,
             y |-> xstart, num_pixels |-> 1,
             batch |-> b, at |-> (i - 1) * c.num_channels]]
    ELSE << [opaque |-> opaque, thread_id |-> thread_id, x |-> xstart,
             y |-> ypos, num_pixels |-> xlen, batch |-> b, at |-> 0] >>

\* WriteToCallback: the pixel_callback_.run invocations for batch number b,
\* each with its arguments; the data pointer is output + at.
WriteToCallback(c, opaque, thread_id, ypos, xstart, xlen, b) ==
  IF c.transpose
    THEN [i \in 1 .. xlen |->
            [opaque |-> opaque, thread_id |-> thread_id, x |-> ypos,
             y |-> (xstart + (i - 1)) % SizeMod, num_pixels |-> 1,
             batch |-> b, at |-> (i - 1) * c.num_channels]]
    ELSE << [opaque |-> opaque, thread_id |-> thread_id, x |-> xstart,
             y |-> ypos, num_pixels |-> xlen, batch |-> b, at |-> 0] >>

\* ssize_t limit = std::min(xextra + xsize, width_ - xpos)
Limit(c, xextra, xsize, xpos) == Min(xextra + xsize, (c.width - xpos) % SizeMod)

\* Faulty variant of BatchLen: the turn gathers up to limit.
BatchLenUncapped(limit, x0) == limit - x0

\* The pixels gathered in one turn: ix runs while ix < kMaxPixelsPerCall and
\* ix + x0 < limit.
BatchLen(limit, x0) == Min(kMaxPixelsPerCall, limit - x0)

\* Faulty variant of XStart: the column of the call, not of the batch.
XStartOfCall(xpos, x0) == xpos % SizeMod

\* size_t xstart = xpos + x0
XStart(xpos, x0) == (xpos + x0) % SizeMod

\* Faulty variant of OpaqueIndex: the pointer into opaque_alpha_ advances with
\* the other line buffers.
OpaqueIndexAdvancing(b, ix) == b * kMaxPixelsPerCall + ix

\* line_buffers[num_color_] = opaque_alpha_.data() when the stage has no
\* alpha: no xextra offset, and the pointer is not advanced after a turn
\* ("if (has_alpha_) line_buffers[num_color_] += kMaxPixelsPerCall").  The
\* element of opaque_alpha_ that ix reads in turn b.
OpaqueIndex(b, ix) == ix

\* opaque_alpha_(kMaxPixelsPerCall, 1.0f); a read beyond its end finds
\* whatever lies there, here 0.
OpaqueAlpha(i) == IF i >= 0 /\ i < kMaxPixelsPerCall THEN One ELSE 0

\* The gathering loop of one turn of the loop over x0 in ProcessRow, for
\* x0 = -xextra + b*1024: "temp[j++] = line_buffers[c][ix]" for ix = 0 ..
\* xlen - 1 and every channel c.  ypos is the caller's row.
Gathered(c, im, xextra, xsize, xpos, ypos, b) ==
  LET limit == Limit(c, xextra, xsize, xpos)
      x0    == b * kMaxPixelsPerCall - xextra
      xlen  == BatchLen(limit, x0)
      len   == xlen * c.num_channels
      \* line_buffers[ch][ix] in this turn
      Line(ch, ix) ==
        IF ch < c.num_color THEN Pix(im, ch, xpos + x0 + ix, ypos)
        ELSE IF c.has_alpha THEN Pix(im, c.alpha_c, xpos + x0 + ix, ypos)
        ELSE OpaqueAlpha(OpaqueIndex(b, ix))
  IN  [x0 |-> x0, xlen |-> xlen,
       temp |-> [j \in 1 .. len |->
                   Line((j - 1) % c.num_channels, (j - 1) \div c.num_channels)]]

\* One turn of the loop over x0 in ProcessRow up to the conversion: gather,
\* unpremultiply, flip.  temp is tempf_[...] as floats.
CbGathered(c, im, xextra, xsize, xpos, ypos, b) ==
  LET g == Gathered(c, im, xextra, xsize, xpos, ypos, b)
      x0 == g.x0
      xlen == g.xlen
      gathered == g.temp
      unpremul == IF c.has_alpha /\ c.want_alpha /\ c.unpremul_alpha
                    THEN UnpremultiplyAlpha(gathered, c.num_color,
                                            c.num_channels, xlen)
                    ELSE gathered
      xstart0  == XStart(xpos, x0)
      temp     == IF c.flip_x THEN FlipPixels(unpremul, c.num_channels, xlen)
                  ELSE unpremul
      xstart   == IF c.flip_x THEN FlipStart(c.width, xstart0, xlen)
                  ELSE xstart0
  IN  [x0 |-> x0, xstart |-> xstart, xlen |-> xlen, temp |-> temp]

\* The same turn with the conversion to data_type_: out is what
\* WriteToCallback is given.
CbBatch(c, im, xextra, xsize, xpos, ypos, b) ==
  LET g == CbGathered(c, im, xextra, xsize, xpos, ypos, b)
  IN  [x0 |-> g.x0, xstart |-> g.xstart, xlen |-> g.xlen,
       out |-> [j \in 1 .. Len(g.temp) |-> Convert(c, g.temp[j])]]

\* Number of turns of the loop "for (x0 = -xextra; x0 < limit; x0 += 1024)".
CbTurns(c, xextra, xsize, xpos) ==
  LET span == Limit(c, xextra, xsize, xpos) + xextra
  IN  IF span <= 0 THEN 0
      ELSE (span + kMaxPixelsPerCall - 1) \div kMaxPixelsPerCall

RECURSIVE Flatten(_)
Flatten(ss) == IF ss = <<>> THEN <<>> ELSE Head(ss) \o Flatten(Tail(ss))

\* The input rows WriteToPixelCallbackStage::ProcessRow obtains.
CbInputRows(c) ==
  (0 .. c.num_color - 1) \cup (IF c.has_alpha THEN {c.alpha_c} ELSE {})

\* Faulty variant of CbGetChannelMode: three colour channels whatever
\* num_channels_ is.
CbGetChannelModeRGB(c, ch) ==
  IF ch < 3 \/ (c.has_alpha /\ ch = c.alpha_c) THEN "kInput" ELSE "kIgnored"

\* WriteToPixelCallbackStage::GetChannelMode
CbGetChannelMode(c, ch) ==
  IF ch < c.num_color \/ (c.has_alpha /\ ch = c.alpha_c)
    THEN "kInput" ELSE "kIgnored"

\* The frames the callback sink is built for: a small one, and one row wider
\* than two batches.
CbSmall == [width |-> MaxCbWidth, height |-> 2]
CbWide  == [width |-> 2 * kMaxPixelsPerCall + MaxTail, height |-> 1]

\* On the small frame every orientation, channel count and data type; on the
\* one-row wide frame flip_y changes nothing, so the four orientations without
\* it, one data type, and gray with alpha or colour without.
CbConfigs ==
  { CbStage(CbSmall.width, CbSmall.height, num_channels, has_alpha, FALSE, 3,
            FALSE, undo_orientation, data_type) :
    num_channels \in 1 .. 4, has_alpha \in BOOLEAN,
    undo_orientation \in Orientations, data_type \in DataTypes }
  \cup
  { CbStage(CbWide.width, CbWide.height, num_channels, has_alpha, FALSE, 3,
            FALSE, undo_orientation, "JXL_TYPE_FLOAT") :
    num_channels \in {2, 3}, has_alpha \in BOOLEAN,
    undo_orientation \in {"kIdentity", "kFlipHorizontal", "kTranspose",
                          "kRotate270"} }

CbInit ==
  /\ sink = "cb"
  /\ cfg \in CbConfigs
  /\ img = 1
  /\ rgb = <<>>
  /\ run_opaque = 0 /\ num_threads = 0 /\ inits = <<>> /\ destroys = <<>>
  /\ alive = TRUE
  /\ call = NoCall /\ reads = {} /\ writes = {} /\ batches = <<>> /\ runs = <<>>
  /\ done = {} /\ next = [xpos |-> 0, ypos |-> 0]
  /\ flipbuf = NoCall
  /\ flight = {} /\ scratch = NoScratch /\ deliveries = <<>> /\ frame = NoCall
  /\ stores = <<>>

\* What pixel_callback_.Init answers: nullptr (0) or a handle of the
\* callback's choosing.
Handles(c) == {0, 1 + (c.num_channels % 2)}

\* Faulty variant of ScratchSize: tempf_ is resized before the handle is
\* looked at.
ScratchSizeAlways(handle, n, old) == n

\* "JXL_RETURN_IF_ERROR(run_opaque_ != nullptr); tempf_.resize(num_threads)":
\* the size of tempf_ after PrepareForThreads.
ScratchSize(handle, n, old) == IF handle = 0 THEN old ELSE n

\* tempf_ and tempu_ after PrepareForThreads: one array per thread, tempu_
\* only for the integer and half-float data types.  A fresh array is <<>>;
\* when Init has failed the arrays are those of before.
Allocated(c, handle, n, old) ==
  [f |-> [i \in 0 .. ScratchSize(handle, n, Cardinality(DOMAIN old.f)) - 1 |->
            IF handle = 0 /\ i \in DOMAIN old.f THEN old.f[i] ELSE <<>>],
   u |-> IF handle = 0 \/ c.data_type = "JXL_TYPE_FLOAT" THEN old.u
         ELSE [i \in 0 .. n - 1 |-> <<>>]]

\* What pixel_callback_.Init answers when it has answered k times before: the
\* handles of different invocations differ.
HandlesAt(c, k) == IF k = 0 THEN Handles(c) ELSE {0, 2 + k}

\* The body of PrepareForThreads.
PrepareForThreads ==
  /\ \E n \in ThreadCounts, handle \in HandlesAt(cfg, Len(inits)) :
       /\ inits' = Append(inits, [num_threads |-> n,
                                  num_pixels |-> kMaxPixelsPerCall,
                                  handle |-> handle])
       /\ run_opaque' = handle
       /\ num_threads' = ScratchSize(handle, n, num_threads)
       /\ scratch' = Allocated(cfg, handle, n, scratch)
       /\ call' = [op |-> "PrepareForThreads", num_threads |-> n,
                   ok |-> (handle # 0)]
  /\ reads' = {} /\ writes' = {} /\ batches' = <<>> /\ runs' = <<>>
  /\ UNCHANGED <<flight, deliveries, frame, stores>>
  /\ UNCHANGED <<sink, cfg, img, rgb, destroys, alive, done, next, flipbuf>>

\* PrepareForThreads, which the pipeline invokes once, before any row.
CbPrepareForThreads ==
  /\ sink = "cb" /\ alive /\ inits = <<>>
  /\ PrepareForThreads

\* The most PrepareForThreads calls made on one stage.
MaxPrepares == 3

\* PrepareForThreads invoked again on the same stage, by a caller that
\* prepares its pipeline more than once.
CbPrepareAgain ==
  /\ sink = "cb" /\ alive /\ inits # <<>> /\ Len(inits) < MaxPrepares
  /\ PrepareForThreads

\* The driver walks the rows of its tile grid from the top, each row from the
\* left in chunks of any size; the grid may reach MaxOverRows rows below the
\* frame and, on the small frame, one column beyond it, and the small frame is
\* also driven with a border of one sample.
CbChunkSizes(c, xpos) ==
  { s \in 1 .. c.width - xpos + (IF c.width <= MaxCbWidth THEN 1 ELSE 0) :
      c.width - xpos - s <= MaxTail }
CbBorders(c) == IF c.width <= MaxCbWidth THEN {0, 1} ELSE {0}
\* The rows of the small frame go to any worker, the row of the wide frame to
\* worker 0.
CbWorkers(c, n) == IF c.width <= MaxCbWidth THEN 0 .. n - 1 ELSE {0}

\* WriteToPixelCallbackStage::ProcessRow.  JXL_DASSERT: run_opaque_ is set;
\* tempf_[thread_id] exists.
CbProcessRow ==
  /\ sink = "cb" /\ alive /\ run_opaque # 0
  /\ next.ypos <= cfg.height - 1 + MaxOverRows
  /\ \E xsize \in CbChunkSizes(cfg, next.xpos), xextra \in CbBorders(cfg),
        thread_id \in CbWorkers(cfg, num_threads) :
       LET a == [xextra |-> xextra, xsize |-> xsize, xpos |-> next.xpos,
                 ypos |-> next.ypos]
       IN
       /\ call' = [op |-> "ProcessRow", xextra |-> a.xextra, xsize |-> a.xsize,
                   xpos |-> a.xpos, ypos |-> a.ypos, thread_id |-> thread_id]
       /\ next' = IF a.xpos + a.xsize >= cfg.width
                    THEN [xpos |-> 0, ypos |-> a.ypos + 1]
                    ELSE [xpos |-> a.xpos + a.xsize, ypos |-> a.ypos]
       /\ IF BeyondHeight(cfg, a.ypos)
            THEN reads' = {} /\ batches' = <<>> /\ runs' = <<>>
            ELSE LET ypos == IF cfg.flip_y THEN cfg.height - 1 - a.ypos
                             ELSE a.ypos
                     bs == [k \in 1 .. CbTurns(cfg, a.xextra, a.xsize, a.xpos) |->
                              CbBatch(cfg, img, a.xextra, a.xsize, a.xpos,
                                      a.ypos, k - 1)]
                 IN  /\ reads' = CbInputRows(cfg)
                     /\ batches' = bs
                     /\ runs' = Flatten([k \in 1 .. Len(bs) |->
                                  WriteToCallback(cfg, run_opaque, thread_id,
                                                  ypos, bs[k].xstart,
                                                  bs[k].xlen, k)])
  /\ writes' = {}
  /\ UNCHANGED aux
  /\ UNCHANGED <<sink, cfg, img, rgb, run_opaque, num_threads, inits, destroys,
                 alive, done, flipbuf>>

\* Faulty variant of Destroyed: destroy is invoked whatever run_opaque_ is.
DestroyedAlways(opaque, ds) == Append(ds, opaque)

\* "if (run_opaque_) pixel_callback_.destroy(run_opaque_)": the destroy
\* invocations after the destructor, ds being those before it.
Destroyed(opaque, ds) == IF opaque # 0 THEN Append(ds, opaque) ELSE ds

\* ~WriteToPixelCallbackStage
CbDestructor ==
  /\ sink = "cb" /\ alive
  /\ alive' = FALSE
  /\ destroys' = Destroyed(run_opaque, destroys)
  /\ call' = [op |-> "~WriteToPixelCallbackStage"]
  /\ reads' = {} /\ writes' = {} /\ batches' = <<>> /\ runs' = <<>>
  /\ UNCHANGED aux
  /\ UNCHANGED <<sink, cfg, img, rgb, run_opaque, num_threads, inits, done,
                 next, flipbuf>>

SpecCb == CbInit /\ [][CbPrepareForThreads \/ CbProcessRow \/ CbDestructor]_vars

SpecU8 == U8Init /\ [][U8ProcessRow]_vars

\* The life of a callback sink whose PrepareForThreads may be invoked more
\* than once: construction, the PrepareForThreads calls, the destructor.
SpecTeardown ==
  CbInit /\ [][CbPrepareForThreads \/ CbPrepareAgain \/ CbDestructor]_vars

\* Either sink.
Init == U8Init \/ CbInit
Next == U8ProcessRow \/ CbPrepareForThreads \/ CbProcessRow \/ CbDestructor
Spec == Init /\ [][Next]_vars

-----------------------------------------------------------------------------
(* GetChannelMode, asked by the pipeline when it is built *)

\* The callback sinks GetChannelMode is asked of: every num_channels, with
\* and without alpha, the alpha channel at any extra channel index.
CbModeConfigs ==
  { CbStage(CbSmall.width, CbSmall.height, num_channels, has_alpha, FALSE,
            alpha_c, FALSE, "kIdentity", "JXL_TYPE_FLOAT") :
    num_channels \in 1 .. 4, has_alpha \in BOOLEAN, alpha_c \in 3 .. MaxChannel }

ModeInit ==
  /\ sink \in {"u8", "cb"}
  /\ cfg \in IF sink = "u8" THEN {c \in U8Configs : c.split = 1 /\ c.img = 0}
             ELSE CbModeConfigs
  /\ img = 0
  /\ rgb = <<>>
  /\ run_opaque = 0 /\ num_threads = 0 /\ inits = <<>> /\ destroys = <<>>
  /\ alive = TRUE
  /\ call = NoCall /\ reads = {} /\ writes = {} /\ batches = <<>> /\ runs = <<>>
  /\ done = {} /\ next = NoCall /\ flipbuf = NoCall
  /\ flight = {} /\ scratch = NoScratch /\ deliveries = <<>> /\ frame = NoCall
  /\ stores = <<>>

\* The pipeline asks WriteToU8Stage::GetChannelMode(c).
U8AskChannelMode ==
  /\ sink = "u8"
  /\ \E c \in 0 .. MaxChannel :
       call' = [op |-> "GetChannelMode", c |-> c,
                mode |-> U8GetChannelMode(cfg, c)]
  /\ UNCHANGED aux
  /\ UNCHANGED <<sink, cfg, img, rgb, run_opaque, num_threads, inits, destroys,
                 alive, reads, writes, batches, runs, done, next, flipbuf>>

\* The pipeline asks WriteToPixelCallbackStage::GetChannelMode(c).
CbAskChannelMode ==
  /\ sink = "cb"
  /\ \E c \in 0 .. MaxChannel :
       call' = [op |-> "GetChannelMode", c |-> c,
                mode |-> CbGetChannelMode(cfg, c)]
  /\ UNCHANGED aux
  /\ UNCHANGED <<sink, cfg, img, rgb, run_opaque, num_threads, inits, destroys,
                 alive, reads, writes, batches, runs, done, next, flipbuf>>

SpecMode == ModeInit /\ [][U8AskChannelMode \/ CbAskChannelMode]_vars

-----------------------------------------------------------------------------
(* The flip step of ProcessRow, lines 246-255, on its own *)

\* Longest batch the flip step is applied to.
MaxFlipLen == 4

\* A batch of xlen pixels of num_channels samples in temp, every sample
\* different from every other, starting at column xstart of a frame of width
\* columns.
FlipInit ==
  /\ sink = "flip"
  /\ \E num_channels \in 1 .. 4, xlen \in 1 .. MaxFlipLen,
        width \in 1 .. MaxFlipLen + 1, xstart \in 0 .. MaxFlipLen :
       /\ xlen <= width /\ xstart <= width
       /\ cfg = [num_channels |-> num_channels, width |-> width]
       /\ flipbuf = [temp |-> [j \in 1 .. xlen * num_channels |-> j],
                     xstart |-> xstart, xlen |-> xlen, n |-> 0,
                     temp0 |-> [j \in 1 .. xlen * num_channels |-> j],
                     xstart0 |-> xstart]
  /\ img = 0
  /\ rgb = <<>>
  /\ run_opaque = 0 /\ num_threads = 0 /\ inits = <<>> /\ destroys = <<>>
  /\ alive = TRUE
  /\ call = NoCall /\ reads = {} /\ writes = {} /\ batches = <<>> /\ runs = <<>>
  /\ done = {} /\ next = NoCall
  /\ flight = {} /\ scratch = NoScratch /\ deliveries = <<>> /\ frame = NoCall
  /\ stores = <<>>

\* "if (flip_x_) { ... }" applied to the batch, at most twice.
FlipStep ==
  /\ sink = "flip" /\ flipbuf.n < 2
  /\ flipbuf' = [flipbuf EXCEPT
                   !.temp = FlipPixels(@, cfg.num_channels, flipbuf.xlen),
                   !.xstart = FlipStart(cfg.width, @, flipbuf.xlen),
                   !.n = @ + 1]
  /\ UNCHANGED aux
  /\ UNCHANGED <<sink, cfg, img, rgb, run_opaque, num_threads, inits, destroys,
                 alive, call, reads, writes, batches, runs, done, next>>

SpecFlip == FlipInit /\ [][FlipStep]_vars

-----------------------------------------------------------------------------
(* The callback sink asked to unpremultiply *)

\* Sinks constructed with unpremul_alpha: every num_channels, with and
\* without an alpha plane in the input, on the small frame.
CbUnpremulConfigs ==
  { CbStage(CbSmall.width, CbSmall.height, num_channels, has_alpha, TRUE, 3,
            FALSE, undo_orientation, data_type) :
    num_channels \in 1 .. 4, has_alpha \in BOOLEAN,
    undo_orientation \in {"kIdentity", "kFlipHorizontal"},
    data_type \in {"JXL_TYPE_FLOAT", "JXL_TYPE_UINT8"} }

CbUnpremulInit ==
  /\ sink = "cb"
  /\ cfg \in CbUnpremulConfigs
  /\ img = 1
  /\ rgb = <<>>
  /\ run_opaque = 0 /\ num_threads = 0 /\ inits = <<>> /\ destroys = <<>>
  /\ alive = TRUE
  /\ call = NoCall /\ reads = {} /\ writes = {} /\ batches = <<>> /\ runs = <<>>
  /\ done = {} /\ next = [xpos |-> 0, ypos |-> 0]
  /\ flipbuf = NoCall
  /\ flight = {} /\ scratch = NoScratch /\ deliveries = <<>> /\ frame = NoCall
  /\ stores = <<>>

SpecUnpremul ==
  CbUnpremulInit /\ [][CbPrepareForThreads \/ CbProcessRow \/ CbDestructor]_vars

-----------------------------------------------------------------------------
(* WriteToPixelCallbackStage::ProcessRow, called by several workers at once *)

\* Faulty variant of TempIndex: every call uses the first scratch array.
TempIndexShared(thread_id) == 0

\* tempf_[thread_id], tempu_[thread_id]: the scratch arrays a call uses.
TempIndex(thread_id) == thread_id

\* A bag of run invocations: the number of times each was made.
BagAdd(B, e) ==
  IF e \in DOMAIN B THEN [B EXCEPT ![e] = @ + 1] ELSE B @@ (e :> 1)

RECURSIVE BagAddAll(_, _)
BagAddAll(B, es) ==
  IF es = <<>> THEN B ELSE BagAddAll(BagAdd(B, Head(es)), Tail(es))

\* The n elements of a scratch array from offset at on, as run reads them
\* through its pointer; beyond what was ever stored there: Untouched.
Slice(buf, at, n) ==
  [k \in 1 .. n |-> IF at + k <= Len(buf) THEN buf[at + k] ELSE Untouched]

\* The frame of the workers: the small frame, with alpha, in every orientation.
ThreadsConfigs ==
  { CbStage(CbSmall.width, CbSmall.height, f[1], TRUE, FALSE, 3, FALSE,
            undo_orientation, f[2]) :
    f \in {<<3, "JXL_TYPE_FLOAT">>, <<2, "JXL_TYPE_UINT16">>},
    undo_orientation \in Orientations }

\* The driver cuts every row of its grid at column split and hands the two
\* spans of every row to the workers, each span once, in any order and to any
\* worker that is not inside a call; the grid reaches at most one row below
\* the frame.  Every call of a frame has the same border xextra.
ThreadsInit ==
  /\ sink = "cb"
  /\ cfg \in ThreadsConfigs
  /\ img = 1
  /\ rgb = <<>>
  /\ run_opaque = 0 /\ num_threads = 0 /\ inits = <<>> /\ destroys = <<>>
  /\ alive = TRUE
  /\ call = NoCall /\ reads = {} /\ writes = {} /\ batches = <<>> /\ runs = <<>>
  /\ done = {}
  /\ \E split \in 1 .. cfg.width - 1, xextra \in CbBorders(cfg) :
       next = [split |-> split, xextra |-> xextra]
  /\ flipbuf = NoCall
  /\ flight = {} /\ scratch = NoScratch /\ deliveries = <<>> /\ frame = NoCall
  /\ stores = <<>>

CbUnits(c, split) ==
  { [ypos |-> y, xpos |-> ch[1], xsize |-> ch[2]] :
    y \in 0 .. c.height - 1 + Min(MaxOverRows, 1),
    ch \in {<<0, split>>, <<split, c.width - split>>} }

Idle(t) == \A fl \in flight : fl.thread_id # t

\* A worker enters ProcessRow: the test of ypos against height_, the input
\* rows, flip_y.  JXL_DASSERT: run_opaque_ is set.
CbEnter ==
  /\ sink = "cb" /\ alive /\ run_opaque # 0
  /\ \E t \in 0 .. num_threads - 1, u \in CbUnits(cfg, next.split) \ done :
       /\ Idle(t)
       /\ done' = done \cup {u}
       /\ IF BeyondHeight(cfg, u.ypos)
            THEN UNCHANGED <<flight, reads>>
            ELSE /\ flight' = flight \cup
                      {[thread_id |-> t, xextra |-> next.xextra,
                        xsize |-> u.xsize,
                        xpos |-> u.xpos, ypos |-> u.ypos, b |-> 0,
                        pc |-> "gather", xstart |-> 0, xlen |-> 0]}
                 /\ reads' = CbInputRows(cfg)
  /\ UNCHANGED <<scratch, deliveries, frame, stores>>
  /\ UNCHANGED <<sink, cfg, img, rgb, run_opaque, num_threads, inits, destroys,
                 alive, call, writes, batches, runs, next, flipbuf>>

\* One turn of the loop of a call up to WriteToCallback: the samples are
\* gathered into tempf_, unpremultiplied and flipped there, and converted in
\* place (float) or into tempu_ (the other data types).
CbGather ==
  /\ sink = "cb" /\ alive
  /\ \E fl \in flight :
       /\ fl.pc = "gather"
       /\ LET g == CbGathered(cfg, img, fl.xextra, fl.xsize, fl.xpos, fl.ypos,
                              fl.b)
              out == [j \in 1 .. Len(g.temp) |-> Convert(cfg, g.temp[j])]
              i == TempIndex(fl.thread_id)
          IN  /\ scratch' =
                   IF cfg.data_type = "JXL_TYPE_FLOAT"
                     THEN [scratch EXCEPT !.f[i] = out]
                     ELSE [scratch EXCEPT !.f[i] = g.temp, !.u[i] = out]
              /\ flight' = (flight \ {fl}) \cup
                             {[fl EXCEPT !.pc = "run", !.xstart = g.xstart,
                                         !.xlen = g.xlen]}
  /\ UNCHANGED <<deliveries, frame, stores>>
  /\ UNCHANGED <<sink, cfg, img, rgb, run_opaque, num_threads, inits, destroys,
                 alive, call, reads, writes, batches, runs, done, next, flipbuf>>

\* WriteToCallback of that turn, and the step of the loop to the next turn or
\* out of the call.
CbRun ==
  /\ sink = "cb" /\ alive
  /\ \E fl \in flight :
       /\ fl.pc = "run"
       /\ LET i == TempIndex(fl.thread_id)
              buf == IF cfg.data_type = "JXL_TYPE_FLOAT" THEN scratch.f[i]
                     ELSE scratch.u[i]
              ypos == IF cfg.flip_y THEN cfg.height - 1 - fl.ypos ELSE fl.ypos
              rs == WriteToCallback(cfg, run_opaque, fl.thread_id, ypos,
                                    fl.xstart, fl.xlen, fl.b + 1)
          IN  /\ deliveries' =
                   BagAddAll(deliveries,
                     [k \in 1 .. Len(rs) |->
                        [x |-> rs[k].x, y |-> rs[k].y,
                         num_pixels |-> rs[k].num_pixels,
                         data |-> Slice(buf, rs[k].at,
                                        rs[k].num_pixels * cfg.num_channels)]])
              /\ flight' = (flight \ {fl}) \cup
                   (IF fl.b + 1 < CbTurns(cfg, fl.xextra, fl.xsize, fl.xpos)
                      THEN {[fl EXCEPT !.pc = "gather", !.b = @ + 1]}
                      ELSE {})
  /\ UNCHANGED <<scratch, frame, stores>>
  /\ UNCHANGED <<sink, cfg, img, rgb, run_opaque, num_threads, inits, destroys,
                 alive, call, reads, writes, batches, runs, done, next, flipbuf>>

SpecThreads ==
  ThreadsInit /\ [][CbPrepareForThreads \/ CbEnter \/ CbGather \/ CbRun]_vars

-----------------------------------------------------------------------------
(* One call of WriteToPixelCallbackStage::ProcessRow, statement by statement *)

\* Lanes(d) for d = HWY_FULL(float): 1 on HWY_SCALAR, 4, 8 or 16 on the vector
\* targets.
FullLanes == {1, 4, 8, 16}

\* The stage on the small frame, asked to unpremultiply, with and without
\* swap_endianness, in every orientation and data type.
StepsConfigs ==
  { [lanes |-> 4] @@
    CbStage(CbSmall.width, CbSmall.height, num_channels, TRUE, TRUE, 3,
            swap_endianness, undo_orientation, data_type) :
    num_channels \in {2, 4}, swap_endianness \in BOOLEAN,
    undo_orientation \in Orientations, data_type \in DataTypes }

\* The stage on the wide frame, for every vector length and channel count,
\* with and without an alpha plane in the input.
ScratchConfigs ==
  { [lanes |-> lanes] @@
    CbStage(CbWide.width, CbWide.height, num_channels, has_alpha, FALSE, 3,
            FALSE, "kIdentity", data_type) :
    lanes \in FullLanes, num_channels \in 1 .. 4, has_alpha \in BOOLEAN,
    data_type \in DataTypes }

\* The one ProcessRow call made on the stage.  Small frame: any row of the
\* grid, a span that begins at most one column beyond the frame and may end
\* beyond it, with and without a border.  Wide frame: the whole row, or its
\* end from the second batch on.
StepCalls(c) ==
  IF c.width <= MaxCbWidth
    THEN [ypos : 0 .. c.height - 1 + MaxOverRows, xpos : 0 .. c.width + 1,
          xsize : 1 .. c.width, xextra : 0 .. 1]
    ELSE { [ypos |-> 0, xpos |-> xpos, xsize |-> c.width - xpos, xextra |-> 0] :
           xpos \in {0, kMaxPixelsPerCall} }

StepsInit ==
  /\ sink = "cb"
  /\ cfg \in StepsConfigs \cup ScratchConfigs
  /\ img = 1
  /\ rgb = <<>>
  /\ run_opaque = 0 /\ num_threads = 0 /\ inits = <<>> /\ destroys = <<>>
  /\ alive = TRUE
  /\ call = NoCall /\ reads = {} /\ writes = {} /\ batches = <<>> /\ runs = <<>>
  /\ done = {} /\ next = NoCall
  /\ flipbuf = NoCall
  /\ flight = {} /\ scratch = NoScratch /\ deliveries = <<>> /\ frame = NoCall
  /\ stores = <<>>

\* The call enters ProcessRow on worker 0: the test of ypos against height_,
\* the input rows, flip_y.  JXL_DASSERT: run_opaque_ is set.  ftop, utop and
\* atop are one more than the highest element of tempf_[thread_id],
\* tempu_[thread_id] and opaque_alpha_ the call has accessed.
CbStepEnter ==
  /\ sink = "cb" /\ alive /\ run_opaque # 0 /\ done = {}
  /\ \E u \in StepCalls(cfg) :
       /\ done' = {u}
       /\ call' = [op |-> "ProcessRow", xextra |-> u.xextra, xsize |-> u.xsize,
                   xpos |-> u.xpos, ypos |-> u.ypos, thread_id |-> 0]
       /\ IF BeyondHeight(cfg, u.ypos) \/ CbTurns(cfg, u.xextra, u.xsize, u.xpos) = 0
            THEN flight' = {}
            ELSE flight' = {[thread_id |-> 0, xextra |-> u.xextra,
                             xsize |-> u.xsize, xpos |-> u.xpos,
                             ypos |-> u.ypos, b |-> 0, pc |-> "gather",
                             xstart |-> 0, xlen |-> 0,
                             ftop |-> 0, utop |-> 0, atop |-> 0]}
       /\ reads' = IF BeyondHeight(cfg, u.ypos) THEN {} ELSE CbInputRows(cfg)
  /\ UNCHANGED <<scratch, deliveries, frame, stores>>
  /\ UNCHANGED <<sink, cfg, img, rgb, run_opaque, num_threads, inits, destroys,
                 alive, writes, batches, runs, next, flipbuf>>

\* Lines 230-241: the samples of the batch are gathered into tempf_.
CbStepGather ==
  /\ sink = "cb" /\ alive
  /\ \E fl \in flight :
       /\ fl.pc = "gather"
       /\ LET g == Gathered(cfg, img, fl.xextra, fl.xsize, fl.xpos, fl.ypos, fl.b)
              i == TempIndex(fl.thread_id)
          IN  /\ scratch' = [scratch EXCEPT !.f[i] = g.temp]
              /\ flight' =
                   {[fl EXCEPT !.pc = "unpremul",
                               !.xstart = XStart(fl.xpos, g.x0),
                               !.xlen = g.xlen,
                               !.ftop = Max(@, g.xlen * cfg.num_channels),
                               !.atop = IF ~cfg.has_alpha /\ cfg.want_alpha
                                          THEN Max(@, OpaqueIndex(fl.b, g.xlen - 1) + 1)
                                          ELSE @]}
  /\ UNCHANGED <<deliveries, frame, stores>>
  /\ UNCHANGED <<sink, cfg, img, rgb, run_opaque, num_threads, inits, destroys,
                 alive, call, reads, writes, batches, runs, done, next, flipbuf>>

\* Lines 242-245: UnpremultiplyAlpha on tempf_, if the stage is to.
CbStepUnpremul ==
  /\ sink = "cb" /\ alive
  /\ \E fl \in flight :
       /\ fl.pc = "unpremul"
       /\ LET i == TempIndex(fl.thread_id)
          IN  scratch' =
                IF cfg.has_alpha /\ cfg.want_alpha /\ cfg.unpremul_alpha
                  THEN [scratch EXCEPT
                          !.f[i] = UnpremultiplyAlpha(@, cfg.num_color,
                                                      cfg.num_channels, fl.xlen)]
                  ELSE scratch
       /\ flight' = {[fl EXCEPT !.pc = "flip"]}
  /\ UNCHANGED <<deliveries, frame, stores>>
  /\ UNCHANGED <<sink, cfg, img, rgb, run_opaque, num_threads, inits, destroys,
                 alive, call, reads, writes, batches, runs, done, next, flipbuf>>

\* Lines 246-255: the pixels of tempf_ are put in reverse order and xstart is
\* mirrored, if flip_x_.
CbStepFlip ==
  /\ sink = "cb" /\ alive
  /\ \E fl \in flight :
       /\ fl.pc = "flip"
       /\ LET i == TempIndex(fl.thread_id)
          IN  IF cfg.flip_x
                THEN /\ scratch' = [scratch EXCEPT
                                      !.f[i] = FlipPixels(@, cfg.num_channels,
                                                          fl.xlen)]
                     /\ flight' = {[fl EXCEPT
                                      !.pc = "narrow",
                                      !.xstart = FlipStart(cfg.width, @, fl.xlen)]}
                ELSE /\ scratch' = scratch
                     /\ flight' = {[fl EXCEPT !.pc = "narrow"]}
  /\ UNCHANGED <<deliveries, frame, stores>>
  /\ UNCHANGED <<sink, cfg, img, rgb, run_opaque, num_threads, inits, destroys,
                 alive, call, reads, writes, batches, runs, done, next, flipbuf>>

\* Faulty variant of LanesTouched: the loop runs while j <= len.
LanesTouchedOneMore(len, lanes) == ((len \div lanes) + 1) * lanes

\* "for (j = 0; j < len; j += Lanes(d))" with LoadU(d, temp + j) and
\* StoreU(..., tempu + j): the elements 0 .. LanesTouched - 1 are loaded and
\* stored (lenup = RoundUpTo(len, Lanes(d))).
LanesTouched(len, lanes) == RoundUpTo(len, lanes)

\* Lines 257-264, 271-288, 295-303: the conversion to data_type_, from tempf_
\* into tempu_.  For JXL_TYPE_FLOAT nothing is stored; from here on the model
\* holds the floats of tempf_ as their bytes.
CbStepNarrow ==
  /\ sink = "cb" /\ alive
  /\ \E fl \in flight :
       /\ fl.pc = "narrow"
       /\ LET i == TempIndex(fl.thread_id)
              temp == scratch.f[i]
              out == [j \in 1 .. Len(temp) |->
                        Converted[cfg.data_type, FALSE][temp[j]]]
              top == LanesTouched(Len(temp), cfg.lanes)
          IN  IF cfg.data_type = "JXL_TYPE_FLOAT"
                THEN /\ scratch' = [scratch EXCEPT !.f[i] = out]
                     /\ flight' = {[fl EXCEPT !.pc = "swap"]}
                ELSE /\ scratch' = [scratch EXCEPT !.u[i] = out]
                     /\ flight' = {[fl EXCEPT !.pc = "swap",
                                              !.ftop = Max(@, top),
                                              !.utop = Max(@, top)]}
  /\ UNCHANGED <<deliveries, frame, stores>>
  /\ UNCHANGED <<sink, cfg, img, rgb, run_opaque, num_threads, inits, destroys,
                 alive, call, reads, writes, batches, runs, done, next, flipbuf>>

\* Faulty variant of Swapped: the bytes of uint8 samples and of the others
\* alike are left as they are.
SwappedNever(data_type, swap_endianness, buf) == buf

\* Lines 265-269 and 289-293: "if (swap_endianness_)" BSwapFloat on every
\* sample of temp, JXL_BSWAP16 on every sample of tempu; the uint8 branch has
\* no such loop.
Swapped(data_type, swap_endianness, buf) ==
  IF swap_endianness /\ data_type # "JXL_TYPE_UINT8"
    THEN [j \in 1 .. Len(buf) |-> BSwap(buf[j])]
    ELSE buf

CbStepSwap ==
  /\ sink = "cb" /\ alive
  /\ \E fl \in flight :
       /\ fl.pc = "swap"
       /\ LET i == TempIndex(fl.thread_id)
          IN  scratch' =
                IF cfg.data_type = "JXL_TYPE_FLOAT"
                  THEN [scratch EXCEPT
                          !.f[i] = Swapped(cfg.data_type, cfg.swap_endianness, @)]
                  ELSE [scratch EXCEPT
                          !.u[i] = Swapped(cfg.data_type, cfg.swap_endianness, @)]
       /\ flight' = {[fl EXCEPT !.pc = "run"]}
  /\ UNCHANGED <<deliveries, frame, stores>>
  /\ UNCHANGED <<sink, cfg, img, rgb, run_opaque, num_threads, inits, destroys,
                 alive, call, reads, writes, batches, runs, done, next, flipbuf>>

\* The statements of one call, one after the other; CbRun is WriteToCallback
\* and the step of the loop to the next batch.
SpecSteps ==
  StepsInit /\ [][CbPrepareForThreads \/ CbStepEnter \/ CbStepGather
                  \/ CbStepUnpremul \/ CbStepFlip \/ CbStepNarrow
                  \/ CbStepSwap \/ CbRun]_vars

-----------------------------------------------------------------------------
(* WriteToImageBundleStage (FrameBufferSink), WriteToImage3FStage             *)
(* (PlanarBufferSink)                                                         *)

\* The most extra channels the pipeline declares to SetInputSizes.
MaxExtra == 2

\* The sizes a channel can be declared with: that of the frame, and one
\* column more.
FrameSize == <<CbSmall.width, CbSmall.height>>
WiderSize == <<CbSmall.width + 1, CbSmall.height>>

\* input_sizes: entry 0 (here the first) is the frame's size.
InputSizes ==
  UNION { { sz \in [1 .. n -> {FrameSize, WiderSize}] : sz[1] = FrameSize } :
          n \in 3 .. 3 + MaxExtra }

\* The vectors SetInputSizes is given: the pipeline declares the three colour
\* channels and the extra channels; any other caller may also declare fewer
\* than three channels (to a build without assertions the model gives no such
\* vector: the stage then copies rows of channels that were never declared).
SizesGiven(c) ==
  IF c.calls = "any" /\ c.asserts
    THEN InputSizes \cup
         UNION { { sz \in [1 .. n -> {FrameSize, WiderSize}] : sz[1] = FrameSize } :
                 n \in 1 .. 2 }
    ELSE InputSizes

\* A frame object: the size of its colour planes, the sizes of its extra
\* channels in order, and the samples of all planes (plane 3 + i is extra
\* channel i).
PlaneSize(color, extra, p) == IF p < 3 THEN color ELSE extra[p - 2]
Samples(color, extra) ==
  UNION { { <<p, x, y>> : x \in 0 .. PlaneSize(color, extra, p)[1] - 1,
                          y \in 0 .. PlaneSize(color, extra, p)[2] - 1 } :
          p \in 0 .. 2 + Len(extra) }
\* Freshly allocated planes hold nothing the model reads.
Fresh(color, extra) ==
  [color |-> color, extra |-> extra,
   data |-> [sa \in Samples(color, extra) |-> Untouched]]

\* What the caller's ImageBundle holds when the stage is constructed: nothing,
\* one extra channel of the frame's size, or small planes and three extra
\* channels.
PriorFrames ==
  { Fresh(<<0, 0>>, <<>>), Fresh(FrameSize, <<FrameSize>>),
    Fresh(<<1, 1>>, <<WiderSize, <<1, 1>>, <<1, 1>>>>) }

\* ImageBundle::SetFromImage (lib/jxl/image_bundle.h): the colour planes become
\* the given image; the extra channels are left as they are.
SetFromImage(color, extra, size) == [color |-> size, extra |-> extra]

\* Faulty variant of ExtraChannels: the list is not cleared first.
ExtraChannelsKept(extra, input_sizes) ==
  extra \o [i \in 1 .. Len(input_sizes) - 3 |-> input_sizes[3 + i]]

\* "extra_channels().clear(); for (c = 3; c < input_sizes.size(); c++)
\* extra_channels().emplace_back(input_sizes[c].first, input_sizes[c].second)"
ExtraChannels(extra, input_sizes) ==
  [i \in 1 .. Len(input_sizes) - 3 |-> input_sizes[3 + i]]

\* The JXL_ASSERTs of SetInputSizes over channels 1 .. upto - 1 (only under
\* JXL_ENABLE_ASSERT).
SizesAccepted(asserts, input_sizes, upto) ==
  asserts => /\ Len(input_sizes) >= 3
             /\ \A c \in 2 .. upto : input_sizes[c] = input_sizes[1]

\* Faulty variant of IbGetChannelMode: extra channels are ignored.
IbGetChannelModeColour(c, ch) == IF ch < 3 THEN "kInput" ELSE "kIgnored"

\* WriteToImageBundleStage::GetChannelMode
IbGetChannelMode(c, ch) == "kInput"

\* WriteToImage3FStage::GetChannelMode
I3fGetChannelMode(c, ch) == IF ch < 3 THEN "kInput" ELSE "kIgnored"

\* The stage is constructed on the caller's frame object; the build has
\* JXL_ENABLE_ASSERT or not.  The driver is the pipeline (calls = "frame"): it
\* cuts every row at column split.
ImageInit ==
  /\ sink \in {"ib", "i3f"}
  /\ cfg \in [asserts : BOOLEAN, split : 1 .. CbSmall.width - 1,
              calls : {"frame"}]
  /\ img = 1
  /\ rgb = <<>>
  /\ run_opaque = 0 /\ num_threads = 0 /\ inits = <<>> /\ destroys = <<>>
  /\ alive = TRUE
  /\ call = NoCall /\ reads = {} /\ writes = {} /\ batches = <<>> /\ runs = <<>>
  /\ done = {} /\ next = [setups |-> 0]
  /\ flipbuf = NoCall
  /\ flight = {} /\ scratch = NoScratch /\ deliveries = <<>>
  /\ frame \in IF sink = "ib" THEN PriorFrames
               ELSE {fr \in PriorFrames : fr.extra = <<>>}
  /\ stores = [sa \in DOMAIN frame.data |-> 0]

\* WriteToImageBundleStage::SetInputSizes.  The pipeline invokes it before the
\* first row; a second invocation has the sizes of the first.
IbSetInputSizes ==
  /\ sink = "ib" /\ alive /\ done = {} /\ next.setups < 2
  /\ \E input_sizes \in SizesGiven(cfg) :
       /\ next.setups > 0 => input_sizes = call.input_sizes
       /\ IF SizesAccepted(cfg.asserts, input_sizes, Len(input_sizes))
            THEN LET st == SetFromImage(frame.color, frame.extra, input_sizes[1])
                     ec == ExtraChannels(st.extra, input_sizes)
                 IN  /\ frame' = Fresh(st.color, ec)
                     /\ stores' = [sa \in Samples(st.color, ec) |-> 0]
                     /\ call' = [op |-> "SetInputSizes",
                                 input_sizes |-> input_sizes, ok |-> TRUE]
                     /\ next' = [setups |-> next.setups + 1]
                     /\ alive' = alive
            ELSE /\ call' = [op |-> "SetInputSizes",
                             input_sizes |-> input_sizes, ok |-> FALSE]
                 /\ alive' = FALSE
                 /\ UNCHANGED <<frame, stores, next>>
  /\ reads' = {} /\ writes' = {}
  /\ UNCHANGED <<sink, cfg, img, rgb, run_opaque, num_threads, inits, destroys,
                 batches, runs, done, flipbuf, flight, scratch, deliveries>>

\* WriteToImage3FStage::SetInputSizes
I3fSetInputSizes ==
  /\ sink = "i3f" /\ alive /\ done = {} /\ next.setups < 2
  /\ \E input_sizes \in SizesGiven(cfg) :
       /\ next.setups > 0 => input_sizes = call.input_sizes
       /\ IF SizesAccepted(cfg.asserts, input_sizes, 3)
            THEN /\ frame' = Fresh(input_sizes[1], <<>>)
                 /\ stores' = [sa \in Samples(input_sizes[1], <<>>) |-> 0]
                 /\ call' = [op |-> "SetInputSizes",
                             input_sizes |-> input_sizes, ok |-> TRUE]
                 /\ next' = [setups |-> next.setups + 1]
                 /\ alive' = alive
            ELSE /\ call' = [op |-> "SetInputSizes",
                             input_sizes |-> input_sizes, ok |-> FALSE]
                 /\ alive' = FALSE
                 /\ UNCHANGED <<frame, stores, next>>
  /\ reads' = {} /\ writes' = {}
  /\ UNCHANGED <<sink, cfg, img, rgb, run_opaque, num_threads, inits, destroys,
                 batches, runs, done, flipbuf, flight, scratch, deliveries>>

\* The calls of the pipeline: the rows of the frame, each cut at column split,
\* any order, xextra 0.  The calls of any other caller: one call per frame, of
\* a row of the frame or one of the MaxOverRows rows below it, of a span that
\* starts in the frame and ends at most one column beyond it, with a border of
\* 0 or 1 samples that does not begin before column 0.
ImageUnits(c, color) ==
  IF c.calls = "frame"
    THEN { [ypos |-> y, xpos |-> ch[1], xsize |-> ch[2], xextra |-> 0] :
           y \in 0 .. color[2] - 1,
           ch \in {<<0, c.split>>, <<c.split, color[1] - c.split>>} }
    ELSE { u \in [ypos : 0 .. color[2] - 1 + MaxOverRows,
                  xpos : 0 .. color[1] - 1, xsize : 1 .. color[1] + 1,
                  xextra : 0 .. 1] :
             u.xpos >= u.xextra /\ u.xpos + u.xsize + u.xextra <= color[1] + 1 }

\* Faulty variant of RowCopy: the border samples are left out.
RowCopyWithoutBorder(im, ps, xextra, xsize, xpos, ypos) ==
  [sa \in { <<p, x, ypos>> : p \in ps, x \in xpos .. xpos + xsize - 1 }
     |-> Pix(im, sa[1], sa[2], ypos)]

\* The memcpy of one row of the planes ps: the samples stored.
RowCopy(im, ps, xextra, xsize, xpos, ypos) ==
  [sa \in { <<p, x, ypos>> : p \in ps,
                             x \in xpos - xextra .. xpos + xsize + xextra - 1 }
     |-> Pix(im, sa[1], sa[2], ypos)]

\* "JXL_ASSERT(extra_channels()[ec].xsize() >= xpos + xsize + xextra)" in the
\* loop over ec: the number of extra channels copied to, and whether the loop
\* came to its end.  Without JXL_ENABLE_ASSERT the macro is empty.
IbCopied(asserts, extra, u) ==
  LET narrow == { i \in 1 .. Len(extra) :
                    extra[i][1] < u.xpos + u.xsize + u.xextra }
  IN  IF asserts /\ narrow # {}
        THEN [n |-> (CHOOSE i \in narrow : \A j \in narrow : i <= j) - 1,
              ok |-> FALSE]
        ELSE [n |-> Len(extra), ok |-> TRUE]

\* WriteToImageBundleStage::ProcessRow.  A memcpy to a location that is no
\* sample of the plane is undefined: the store lands outside the plane, or the
\* process faults.
IbProcessRow ==
  /\ sink = "ib" /\ alive /\ next.setups > 0
  /\ cfg.calls = "any" => done = {}
  /\ \E u \in ImageUnits(cfg, frame.color) \ done, fault \in BOOLEAN :
       LET cp == IbCopied(cfg.asserts, frame.extra, u)
           ps == 0 .. 2 + cp.n
           st == RowCopy(img, ps, u.xextra, u.xsize, u.xpos, u.ypos)
           outside == DOMAIN st \ DOMAIN frame.data
       IN  /\ fault => outside # {}
           /\ frame' = [frame EXCEPT !.data = Apply(@, st)]
           /\ stores' = Counted(stores, st)
           /\ writes' = IF fault THEN DOMAIN st \ outside ELSE DOMAIN st
           /\ reads' = ps
           /\ done' = done \cup {u}
           /\ alive' = (cp.ok /\ ~fault)
           /\ call' = [op |-> "ProcessRow", xextra |-> u.xextra,
                       xsize |-> u.xsize, xpos |-> u.xpos, ypos |-> u.ypos,
                       thread_id |-> 0]
  /\ UNCHANGED <<sink, cfg, img, rgb, run_opaque, num_threads, inits, destroys,
                 batches, runs, next, flipbuf, flight, scratch, deliveries>>

\* WriteToImage3FStage::ProcessRow
I3fProcessRow ==
  /\ sink = "i3f" /\ alive /\ next.setups > 0
  /\ cfg.calls = "any" => done = {}
  /\ \E u \in ImageUnits(cfg, frame.color) \ done, fault \in BOOLEAN :
       LET st == RowCopy(img, 0 .. 2, u.xextra, u.xsize, u.xpos, u.ypos)
           outside == DOMAIN st \ DOMAIN frame.data
       IN  /\ fault => outside # {}
           /\ frame' = [frame EXCEPT !.data = Apply(@, st)]
           /\ stores' = Counted(stores, st)
           /\ writes' = IF fault THEN DOMAIN st \ outside ELSE DOMAIN st
           /\ reads' = 0 .. 2
           /\ done' = done \cup {u}
           /\ alive' = ~fault
           /\ call' = [op |-> "ProcessRow", xextra |-> u.xextra,
                       xsize |-> u.xsize, xpos |-> u.xpos, ypos |-> u.ypos,
                       thread_id |-> 0]
  /\ UNCHANGED <<sink, cfg, img, rgb, run_opaque, num_threads, inits, destroys,
                 batches, runs, next, flipbuf, flight, scratch, deliveries>>

SpecImage ==
  ImageInit /\ [][IbSetInputSizes \/ I3fSetInputSizes \/ IbProcessRow
                  \/ I3fProcessRow]_vars

\* The image sinks under any caller (calls = "any"): the stage is constructed
\* on an empty frame object.
ImageCallsInit ==
  /\ sink \in {"ib", "i3f"}
  /\ cfg \in [asserts : BOOLEAN, split : {1}, calls : {"any"}]
  /\ img = 1
  /\ rgb = <<>>
  /\ run_opaque = 0 /\ num_threads = 0 /\ inits = <<>> /\ destroys = <<>>
  /\ alive = TRUE
  /\ call = NoCall /\ reads = {} /\ writes = {} /\ batches = <<>> /\ runs = <<>>
  /\ done = {} /\ next = [setups |-> 0]
  /\ flipbuf = NoCall
  /\ flight = {} /\ scratch = NoScratch /\ deliveries = <<>>
  /\ frame = Fresh(<<0, 0>>, <<>>)
  /\ stores = [sa \in DOMAIN frame.data |-> 0]

SpecImageCalls ==
  ImageCallsInit /\ [][IbSetInputSizes \/ I3fSetInputSizes \/ IbProcessRow
                       \/ I3fProcessRow]_vars

-----------------------------------------------------------------------------
(* The four sinks, each driven over a whole frame in any order *)

\* The raw buffer sink with a row in one span, cut after its first pixel, or
\* cut after a vector of 4.
U8FrameConfigs ==
  { c \in U8Configs :
      c.alpha_c = 3 /\ c.split <= c.width /\ c.split \in {1, 4, c.width} }

U8FrameInit ==
  /\ sink = "u8"
  /\ cfg \in U8FrameConfigs
  /\ img = cfg.img
  /\ rgb = [o \in 0 .. cfg.stride * cfg.height - 1 |-> Untouched]
  /\ run_opaque = 0 /\ num_threads = 0 /\ inits = <<>> /\ destroys = <<>>
  /\ alive = TRUE
  /\ call = NoCall /\ reads = {} /\ writes = {} /\ batches = <<>> /\ runs = <<>>
  /\ done = {} /\ next = NoCall /\ flipbuf = NoCall
  /\ flight = {} /\ scratch = NoScratch /\ deliveries = <<>> /\ frame = NoCall
  /\ stores = [o \in 0 .. cfg.stride * cfg.height - 1 |-> 0]

SpecSinks ==
  /\ U8FrameInit \/ ThreadsInit \/ ImageInit
  /\ [][U8ProcessRow \/ CbPrepareForThreads \/ CbEnter \/ CbGather \/ CbRun
        \/ IbSetInputSizes \/ I3fSetInputSizes \/ IbProcessRow
        \/ I3fProcessRow]_vars

-----------------------------------------------------------------------------
(* The narrowing of one sample to uint8 and uint16, lines 126-134, 277-281  *)
(* and 298-303, on a grid of samples finer than that of the images          *)

\* A sample of the fine grid is a numerator over 2 ^ FineBits.
FineBits == 12
FineDen == 2 ^ FineBits

\* A product of two binary32 numbers as Mul delivers it: the exact product
\* num (a numerator over a power of two) rounded to 24 significant bits, to
\* nearest, ties to even.
RoundF32(num) ==
  IF num < 2 ^ 24 THEN num
  ELSE LET unit == 2 ^ (Log2(num) - 23)
           q == num \div unit
           r == num % unit
       IN  IF 2 * r < unit \/ (2 * r = unit /\ q % 2 = 0) THEN q * unit
           ELSE (q + 1) * unit

\* Faulty variant of Narrowed: the multiplier is the number of code values,
\* not the largest of them.
NarrowedByCount(mul, num, den) ==
  NearestInt(RoundF32(Clamp(0, num, den) * (mul + 1)), den) % (mul + 1)

\* "Mul(Clamp(zero, LoadU(d, ...), one), mul)", NearestInt and the narrowing
\* to the integer type, for mul = 255.0f (uint8) and 65535.0f (uint16): the
\* code value of the sample num/den.
Narrowed(mul, num, den) == NearestInt(RoundF32(Clamp(0, num, den) * mul), den)

\* The two multipliers, and the samples handed to the narrowing: the grid from
\* -1/4 to 5/4.
Multipliers == {255, 65535}
FineSamples == (0 - FineDen \div 4) .. (FineDen + FineDen \div 4)

NarrowInit ==
  /\ sink = "narrow"
  /\ cfg \in [mul : Multipliers]
  /\ img = 0
  /\ rgb = <<>>
  /\ run_opaque = 0 /\ num_threads = 0 /\ inits = <<>> /\ destroys = <<>>
  /\ alive = TRUE
  /\ call = NoCall /\ reads = {} /\ writes = {} /\ batches = <<>> /\ runs = <<>>
  /\ done = {} /\ next \in [v : FineSamples]
  /\ flipbuf = NoCall
  /\ flight = {} /\ scratch = NoScratch /\ deliveries = <<>> /\ frame = NoCall
  /\ stores = <<>>

\* One lane of the conversion loop on the sample next.v, and on the next
\* sample of the grid above it.
NarrowSample ==
  /\ sink = "narrow" /\ call = NoCall
  /\ call' = [op |-> "Narrow", v |-> next.v,
              code |-> Narrowed(cfg.mul, next.v, FineDen),
              above |-> Narrowed(cfg.mul, next.v + 1, FineDen)]
  /\ UNCHANGED aux
  /\ UNCHANGED <<sink, cfg, img, rgb, run_opaque, num_threads, inits, destroys,
                 alive, reads, writes, batches, runs, done, next, flipbuf>>

SpecNarrow == NarrowInit /\ [][NarrowSample]_vars

-----------------------------------------------------------------------------
(* Properties of the sinks *)

U8Bytes4(c) == IF c.rgba THEN 4 ELSE 3
\* The byte range of rgb_ that belongs to the pixels of the most recent call.
U8RangeLo(c, k) == k.ypos * c.stride + U8Bytes4(c) * k.xpos
U8RangeHi(c, k) == k.ypos * c.stride + U8Bytes4(c) * (k.xpos + k.xsize)

\* C1: a ProcessRow call with ypos >= height stores nothing to the flat buffer
\* and makes no Run invocation, whatever xpos, xsize, orientation and data
\* type.
C1_RowsBeyondHeightSkipped ==
  (call.op = "ProcessRow" /\ call.ypos >= cfg.height)
    => (writes = {} /\ runs = <<>>)

\* A row of the over-allocated grid was handed to the raw buffer sink after
\* rows of the frame had been written.
C1_Witness ==
  /\ sink = "u8" /\ call.op = "ProcessRow" /\ call.ypos >= cfg.height
  /\ done # {}

\* C2: with has_alpha = false and rgba = true every alpha byte ProcessRow
\* stores is 255, whatever the alpha plane holds, and ProcessRow does not
\* obtain the input row of alpha_channel_index.
C2_OpaqueAlphaWithoutAlpha ==
  (sink = "u8" /\ ~cfg.has_alpha /\ cfg.rgba /\ call.op = "ProcessRow")
    => /\ \A o \in writes :
            (o - U8RangeLo(cfg, call)) % 4 = 3 => rgb[o] = 255
       /\ cfg.alpha_c \notin reads

\* A row was written without alpha from an image whose alpha plane holds a
\* sample other than 1.0 under a written pixel.
C2_Witness ==
  /\ sink = "u8" /\ ~cfg.has_alpha /\ cfg.rgba /\ call.op = "ProcessRow"
  /\ writes # {}
  /\ \E i \in 0 .. call.xsize - 1 :
       Pix(img, cfg.alpha_c, call.xpos + i, call.ypos) # One

\* The input plane behind byte k of a pixel.
U8Plane(c, k) == IF k < 3 THEN k ELSE c.alpha_c

\* b is an integer nearest to 255 * clamp(v/SampleDen, 0, 1).
IsNearest255(b, v) ==
  LET cl == IF v < 0 THEN 0 ELSE IF v > One THEN One ELSE v
      d  == b * SampleDen - 255 * cl
  IN  b \in 0 .. 255 /\ 2 * d <= SampleDen /\ 2 * d >= 0 - SampleDen

\* C3: every byte written for an input sample v is round_to_nearest(255 *
\* clamp(v, 0, 1)); the 2x2 RGBA tile with R = [0.0, 0.5, 1.0, 0.25], alpha 1.0,
\* rgba, has_alpha, stride 8, height 2 gives red bytes 0, 128, 255, 64 at
\* offsets 0, 4, 8, 12 and alpha bytes 255 at offsets 3, 7, 11, 15.
C3_BytesAreRoundedClampedSamples ==
  /\ (sink = "u8" /\ call.op = "ProcessRow" /\ call.ypos < cfg.height)
       => \A i \in 0 .. call.xsize - 1, k \in 0 .. U8Bytes4(cfg) - 1 :
            (k < 3 \/ cfg.has_alpha)
              => IsNearest255(rgb[U8RangeLo(cfg, call) + U8Bytes4(cfg) * i + k],
                              Pix(img, U8Plane(cfg, k), call.xpos + i, call.ypos))
  /\ (sink = "u8" /\ img = 0 /\ cfg.rgba /\ cfg.has_alpha /\ cfg.stride = 8
        /\ cfg.height = 2
        /\ \A y \in 0 .. 1, ch \in U8Chunks(cfg) : <<y, ch[1]>> \in done)
       => /\ <<rgb[0], rgb[4], rgb[8], rgb[12]>> = <<0, 128, 255, 64>>
          /\ <<rgb[3], rgb[7], rgb[11], rgb[15]>> = <<255, 255, 255, 255>>

\* Both rows of the 2x2 tile have been written, each in two calls.
C3_Witness ==
  /\ sink = "u8" /\ img = 0 /\ cfg.rgba /\ cfg.has_alpha /\ cfg.stride = 8
  /\ cfg.height = 2 /\ cfg.split = 1
  /\ \A y \in 0 .. 1, ch \in U8Chunks(cfg) : <<y, ch[1]>> \in done

\* C4: a ProcessRow call with xextra = 0 and ypos < height stores to exactly
\* the bytes [ypos*stride + bytes*xpos, ypos*stride + bytes*(xpos+xsize)) of
\* the buffer, bytes being 4 if rgba and 3 if not, and leaves every other byte
\* as it was, also when xsize is no multiple of the vector's lanes.
C4_WritesExactlyTheRowRange ==
  [][ (sink = "u8" /\ call'.op = "ProcessRow" /\ call'.ypos < cfg.height)
        => /\ writes' = U8RangeLo(cfg, call') .. U8RangeHi(cfg, call') - 1
           /\ \A o \in DOMAIN rgb :
                IF o \in U8RangeLo(cfg, call') .. U8RangeHi(cfg, call') - 1
                  THEN rgb'[o] \in 0 .. 255
                  ELSE rgb'[o] = rgb[o] ]_vars

\* One call wrote a row of 9 pixels on NEON: two stores of a whole register
\* and a tail of one pixel.
C4_Witness ==
  /\ sink = "u8" /\ call.op = "ProcessRow" /\ call.ypos < cfg.height
  /\ cfg.target = "NEON" /\ call.xsize >= 9 /\ call.xsize % 4 # 0

\* C5: GetChannelMode depends on the construction parameters only.  The raw
\* buffer sink answers Input for channels 0..2 and for alpha_c when has_alpha,
\* Ignored for every other index; the callback sink answers Input for channel
\* 0 (num_channels 1 or 2) or channels 0..2 (num_channels 3 or 4) and for
\* alpha_c when has_alpha, Ignored for every other index.
C5_ChannelModes ==
  call.op = "GetChannelMode" =>
    LET colour == IF sink = "u8" \/ cfg.num_channels \in {3, 4}
                    THEN {0, 1, 2} ELSE {0}
        input  == call.c \in colour \/ (cfg.has_alpha /\ call.c = cfg.alpha_c)
    IN  call.mode = IF input THEN "kInput" ELSE "kIgnored"

\* The callback sink of a grayscale output was asked about channel 1.
C5_Witness ==
  /\ sink = "cb" /\ cfg.num_channels = 1 /\ cfg.has_alpha
  /\ call.op = "GetChannelMode" /\ call.c = 1 /\ call.mode = "kIgnored"

\* The pixels the most recent ProcessRow of the callback sink had to deliver:
\* the columns from xpos - xextra up to xpos + min(xextra + xsize, width - xpos).
CbSpanLen(c, k) == Min(k.xextra + k.xsize, c.width - k.xpos) + k.xextra

\* C6 (as amended): every Run invocation of the callback sink has a
\* pixel_count from 1 to 1024, the number passed to Init, for every xsize,
\* xpos, xextra, orientation and data type; a span longer than 1024 pixels is
\* delivered as consecutive batches of 1024 followed by one batch of the
\* pixels that remain, which are 1 to 1024.
C6_BatchesOfAtMost1024 ==
  (sink = "cb" /\ call.op = "ProcessRow" /\ call.ypos < cfg.height)
    => LET total == CbSpanLen(cfg, call)
           nb    == Len(batches)
       IN  /\ inits[1].num_pixels = 1024
           /\ \A i \in 1 .. Len(runs) :
                /\ runs[i].num_pixels >= 1
                /\ runs[i].num_pixels <= inits[1].num_pixels
           /\ nb = (total + 1023) \div 1024
           /\ \A k \in 1 .. nb :
                /\ batches[k].x0 = 1024 * (k - 1) - call.xextra
                /\ batches[k].xlen = IF k < nb THEN 1024
                                     ELSE total - 1024 * (nb - 1)
           /\ Len(runs) = IF cfg.transpose THEN total ELSE nb
           /\ \A i \in 1 .. Len(runs) :
                runs[i].num_pixels = IF cfg.transpose THEN 1
                                     ELSE batches[runs[i].batch].xlen

\* C6 as the specification states it: the batch after the batches of 1024 is
\* shorter than 1024.
C6_LastBatchShorter ==
  (sink = "cb" /\ call.op = "ProcessRow" /\ call.ypos < cfg.height
     /\ CbSpanLen(cfg, call) > 1024)
    => /\ \A k \in 1 .. Len(batches) - 1 : batches[k].xlen = 1024
       /\ batches[Len(batches)].xlen < 1024

\* A span of 2049 pixels went out untransposed as batches of 1024, 1024 and 1.
C6_Witness ==
  /\ sink = "cb" /\ call.op = "ProcessRow" /\ ~cfg.transpose
  /\ Len(runs) = 3 /\ runs[3].num_pixels = 1

\* The sample of channel ch of the output pixel made from source pixel
\* (x, y): colour, then alpha or 1.0.
CbSource(c, im, ch, x, y) ==
  IF ch < c.num_color THEN Pix(im, ch, x, y)
  ELSE IF c.has_alpha THEN Pix(im, c.alpha_c, x, y)
  ELSE One

\* The callback coordinate of source pixel (x, y) of a w x h frame.
Oriented(o, w, h, x, y) ==
  CASE o = "kIdentity"       -> <<x, y>>
    [] o = "kFlipHorizontal" -> <<w - 1 - x, y>>
    [] o = "kFlipVertical"   -> <<x, h - 1 - y>>
    [] o = "kRotate180"      -> <<w - 1 - x, h - 1 - y>>
    [] o = "kTranspose"      -> <<y, x>>
    [] o = "kRotate90"       -> <<h - 1 - y, x>>
    [] o = "kRotate270"      -> <<y, w - 1 - x>>
    [] o = "kAntiTranspose"  -> <<h - 1 - y, w - 1 - x>>

\* What the callback was handed by the most recent call: pixel p of invocation
\* i lies at (x + p, y) and its samples at the data pointer plus p pixels.
RunPixels ==
  UNION { {<<i, p>> : p \in 0 .. runs[i].num_pixels - 1} : i \in 1 .. Len(runs) }
RunCoord(ip) ==
  <<(runs[ip[1]].x + ip[2]) % SizeMod, runs[ip[1]].y>>
RunSamples(ip) ==
  LET r == runs[ip[1]]
  IN  [ch \in 0 .. cfg.num_channels - 1 |->
         batches[r.batch].out[r.at + ip[2] * cfg.num_channels + ch + 1]]

\* C7: for each of the eight orientations the sample of source pixel (x, y)
\* reaches the callback at the coordinate of the transform: Identity (x, y),
\* FlipH (w-1-x, y), FlipV (x, h-1-y), Rotate180 (w-1-x, h-1-y), Transpose
\* (y, x), Rotate90 (h-1-y, x), Rotate270 (y, w-1-x), AntiTranspose (h-1-y,
\* w-1-x), for every split of a row into calls and into batches: every pixel
\* of the frame in the span of a call is delivered at that coordinate with
\* its samples, and no two delivered pixels share a coordinate.
C7_OrientationMapping ==
  (sink = "cb" /\ call.op = "ProcessRow" /\ call.ypos < cfg.height)
    => LET first == call.xpos - call.xextra
           total == CbSpanLen(cfg, call)
           inframe == {x \in first .. first + total - 1 :
                         x >= 0 /\ x < cfg.width}
           expected ==
             { <<Oriented(cfg.undo_orientation, cfg.width, cfg.height,
                          x, call.ypos),
                 [ch \in 0 .. cfg.num_channels - 1 |->
                    Convert(cfg, CbSource(cfg, img, ch, x, call.ypos))]>> :
               x \in inframe }
           delivered == {<<RunCoord(ip), RunSamples(ip)>> : ip \in RunPixels}
       IN  /\ expected \subseteq delivered
           /\ Cardinality(RunPixels) = total
           /\ Cardinality({RunCoord(ip) : ip \in RunPixels}) = total

\* A row of the wide frame went out under Rotate270 (flip and transpose) in
\* three batches.
C7_Witness ==
  /\ sink = "cb" /\ call.op = "ProcessRow"
  /\ cfg.undo_orientation = "kRotate270" /\ Len(batches) = 3

\* Pixels handed to the callback before invocation i of the most recent call.
RECURSIVE PixelsBefore(_)
PixelsBefore(i) ==
  IF i <= 1 THEN 0 ELSE PixelsBefore(i - 1) + runs[i - 1].num_pixels

\* C8: with undo_orientation Identity every Run invocation gets as x the
\* source column of the first pixel of its batch, as y the ypos of ProcessRow,
\* and the pixels of the batch by ascending source column, the channels of a
\* pixel together, for any xpos, xsize and batch split.
C8_IdentityKeepsOrder ==
  (sink = "cb" /\ call.op = "ProcessRow" /\ call.ypos < cfg.height
     /\ cfg.undo_orientation = "kIdentity")
    => \A i \in 1 .. Len(runs) :
         LET r   == runs[i]
             col == call.xpos - call.xextra + PixelsBefore(i)
         IN  /\ r.x = col % SizeMod
             /\ r.y = call.ypos
             /\ \A p \in 0 .. r.num_pixels - 1, ch \in 0 .. cfg.num_channels - 1 :
                  batches[r.batch].out[r.at + p * cfg.num_channels + ch + 1]
                    = Convert(cfg, CbSource(cfg, img, ch, col + p, call.ypos))

\* An Identity sink delivered a row in more than one batch.
C8_Witness ==
  /\ sink = "cb" /\ call.op = "ProcessRow"
  /\ cfg.undo_orientation = "kIdentity" /\ cfg.num_channels = 3
  /\ Len(runs) = 3 /\ runs[2].x = 1024

\* C9: the flip step (pixel order of the batch reversed, the channels of a
\* pixel together; xstart to width - xstart - xlen) applied to its own output
\* gives back the pixel order and the xstart it started from, for every
\* xlen >= 1, odd or even, and num_channels 1..4.
C9_FlipIsInvolution ==
  sink = "flip" =>
    LET nc == cfg.num_channels
        b  == flipbuf
    IN  /\ b.n = 1 =>
             /\ \A i \in 0 .. b.xlen - 1, ch \in 1 .. nc :
                  b.temp[(b.xlen - 1 - i) * nc + ch] = b.temp0[i * nc + ch]
             /\ b.xstart = (cfg.width - b.xstart0 - b.xlen) % SizeMod
        /\ b.n = 2 => (b.temp = b.temp0 /\ b.xstart = b.xstart0)

\* A batch of three pixels of two channels was flipped twice.
C9_Witness ==
  /\ sink = "flip" /\ flipbuf.n = 2 /\ flipbuf.xlen = 3
  /\ cfg.num_channels = 2 /\ flipbuf.xstart0 + flipbuf.xlen <= cfg.width

\* C10: under an orientation with a transpose a batch of xlen pixels makes
\* xlen Run invocations, each of pixel_count 1, x the row coordinate, y the
\* column xstart + i, the data pointer of invocation i at pixel i of the
\* batch; without a transpose the batch makes one Run invocation of
\* pixel_count xlen.
C10_TransposeOnePixelPerRun ==
  (sink = "cb" /\ call.op = "ProcessRow" /\ call.ypos < cfg.height)
    => LET nc  == cfg.num_channels
           n   == Len(runs)
           row == IF cfg.flip_y THEN cfg.height - 1 - call.ypos ELSE call.ypos
       IN  IF cfg.undo_orientation \in {"kTranspose", "kRotate90", "kRotate270",
                                        "kAntiTranspose"}
             THEN /\ n > 0 => (runs[1].batch = 1 /\ runs[n].batch = Len(batches))
                  /\ \A i \in 1 .. n :
                       LET r == runs[i]
                           b == batches[r.batch]
                       IN  /\ r.num_pixels = 1
                           /\ r.x = row
                           /\ r.at % nc = 0
                           /\ r.y = (b.xstart + r.at \div nc) % SizeMod
                           /\ r.at = IF i > 1 /\ runs[i - 1].batch = r.batch
                                       THEN runs[i - 1].at + nc ELSE 0
                           /\ (i > 1 /\ runs[i - 1].batch # r.batch)
                                => r.batch = runs[i - 1].batch + 1
                           /\ (i = n \/ runs[IF i = n THEN i ELSE i + 1].batch
                                          # r.batch)
                                => r.at = (b.xlen - 1) * nc
             ELSE /\ n = Len(batches)
                  /\ \A k \in 1 .. n :
                       /\ runs[k].batch = k
                       /\ runs[k].num_pixels = batches[k].xlen
                       /\ runs[k].at = 0

\* A batch of three pixels went out under Rotate90 as three invocations.
C10_Witness ==
  /\ sink = "cb" /\ call.op = "ProcessRow"
  /\ cfg.undo_orientation = "kRotate90" /\ cfg.num_channels = 2
  /\ Len(batches) = 1 /\ batches[1].xlen = 3 /\ Len(runs) = 3

\* The bytes of 1.0 in each output type, lowest first: binary32 3F800000,
\* 65535, binary16 3C00, 255.
EncodedOne(data_type, swap_endianness) ==
  LET b == CASE data_type = "JXL_TYPE_FLOAT"   -> <<0, 0, 128, 63>>
             [] data_type = "JXL_TYPE_UINT16"  -> <<255, 255>>
             [] data_type = "JXL_TYPE_FLOAT16" -> <<0, 60>>
             [] data_type = "JXL_TYPE_UINT8"   -> <<255>>
  IN  IF swap_endianness THEN [i \in 1 .. Len(b) |-> b[Len(b) + 1 - i]] ELSE b

\* C11: a callback sink with has_alpha = false and num_channels 2 or 4 hands
\* over 1.0, encoded in the output type, as the alpha sample of every pixel,
\* in every batch of a row, and does not obtain the input row of alpha_c.
C11_OpaqueAlphaInEveryBatch ==
  (sink = "cb" /\ call.op = "ProcessRow" /\ ~cfg.has_alpha
     /\ cfg.num_channels \in {2, 4})
    => /\ \A ip \in RunPixels :
            RunSamples(ip)[cfg.num_channels - 1]
              = EncodedOne(cfg.data_type, cfg.swap_endianness)
       /\ cfg.alpha_c \notin reads

\* A row of gray with alpha, without an alpha plane, went out in three
\* batches.
C11_Witness ==
  /\ sink = "cb" /\ call.op = "ProcessRow" /\ ~cfg.has_alpha
  /\ cfg.num_channels = 2 /\ Len(batches) = 3 /\ Len(runs) >= 3

\* A colour sample divided by alpha, the alpha kept away from zero (1/2^26).
Unpremultiplied(v, a) == IF a > 0 THEN (v * SampleDen) \div a ELSE v * 2 ^ 26

\* The source column of the pixel delivered at column x, for the orientations
\* of CbUnpremulConfigs.
UnflippedColumn(c, x) == IF c.flip_x THEN c.width - 1 - x ELSE x

\* C12 (as the specification states it): with has_alpha and unpremul_alpha the
\* colour samples of every delivered pixel are the input colour samples
\* divided by the pixel's alpha, for num_channels 1, 2, 3 and 4.
C12_UnpremultipliedForEveryFormat ==
  (sink = "cb" /\ call.op = "ProcessRow" /\ call.ypos < cfg.height
     /\ cfg.has_alpha /\ cfg.unpremul_alpha)
    => \A ip \in RunPixels :
         LET x == UnflippedColumn(cfg, RunCoord(ip)[1])
         IN  (x >= 0 /\ x < cfg.width)
               => \A ch \in 0 .. cfg.num_color - 1 :
                    RunSamples(ip)[ch]
                      = Convert(cfg, Unpremultiplied(
                                       Pix(img, ch, x, call.ypos),
                                       Pix(img, cfg.alpha_c, x, call.ypos)))

\* C13: when Init answers a null handle PrepareForThreads reports failure and
\* allocates no scratch, and the sink makes no Run and no Destroy invocation
\* afterwards; Init is not tried again.
C13_NullHandleIsFatal ==
  (sink = "cb" /\ inits # <<>> /\ inits[1].handle = 0)
    => /\ call.op = "PrepareForThreads" => ~call.ok
       /\ run_opaque = 0
       /\ num_threads = 0
       /\ runs = <<>>
       /\ destroys = <<>>
       /\ Len(inits) = 1

\* A sink whose Init answered null was destroyed.
C13_Witness ==
  /\ sink = "cb" /\ inits # <<>> /\ inits[1].handle = 0 /\ ~alive

\* C14: with PrepareForThreads invoked once, Init is called once and before
\* any Run, every Run gets the handle Init answered, and Destroy is called
\* once, at teardown and after the last Run, exactly when that handle is not
\* null; a sink destroyed without PrepareForThreads calls neither.
C14_InitOnceDestroyOnce ==
  sink = "cb" =>
    /\ Len(inits) <= 1
    /\ runs # <<>> =>
         /\ alive /\ Len(inits) = 1
         /\ \A i \in 1 .. Len(runs) : runs[i].opaque = inits[1].handle
    /\ destroys = IF ~alive /\ inits # <<>> /\ inits[1].handle # 0
                    THEN <<inits[1].handle>> ELSE <<>>
    /\ ~alive => call.op = "~WriteToPixelCallbackStage"

\* A sink that delivered rows with its handle was destroyed.
C14_Witness ==
  /\ sink = "cb" /\ ~alive /\ Len(destroys) = 1 /\ next.ypos > 0

\* The flat buffer after a frame: every byte of every pixel holds the pixel's
\* converted sample, the padding of a row is as it was.
U8Final(c, im) ==
  [o \in 0 .. c.stride * c.height - 1 |->
     LET y == o \div c.stride
         x == (o % c.stride) \div U8Bytes4(c)
         k == (o % c.stride) % U8Bytes4(c)
     IN  IF x >= c.width THEN Untouched
         ELSE IF k < 3 THEN ToU8(Pix(im, k, x, y))
         ELSE U8Alpha(c, im, x, y)]

U8FrameDone ==
  \A y \in 0 .. cfg.height - 1, ch \in U8Chunks(cfg) : <<y, ch[1]>> \in done

\* The run invocations of one ProcessRow call made on its own.
UnitRuns(c, im, xextra, u) ==
  UNION { LET bt == CbBatch(c, im, xextra, u.xsize, u.xpos, u.ypos, b)
              ypos == IF c.flip_y THEN c.height - 1 - u.ypos ELSE u.ypos
              rs == WriteToCallback(c, 1, 0, ypos, bt.xstart, bt.xlen, b + 1)
          IN  { <<u, b, k,
                  [x |-> rs[k].x, y |-> rs[k].y,
                   num_pixels |-> rs[k].num_pixels,
                   data |-> SubSeq(bt.out, rs[k].at + 1,
                                   rs[k].at + rs[k].num_pixels * c.num_channels)]>> :
                k \in 1 .. Len(rs) } :
          b \in 0 .. CbTurns(c, xextra, u.xsize, u.xpos) - 1 }

\* The bag of run invocations of a frame whose calls are made one after the
\* other.
SequentialDeliveries(c, im, xextra, split) ==
  LET T == UNION { UnitRuns(c, im, xextra, u) :
                   u \in {v \in CbUnits(c, split) : v.ypos < c.height} }
  IN  [e \in {t[4] : t \in T} |-> Cardinality({t \in T : t[4] = e})]

CbFrameDone == done = CbUnits(cfg, next.split) /\ flight = {}

\* C15: once every ProcessRow call of a frame has been made, the flat buffer
\* of the raw buffer sink and the bag of (x, y, pixel_count, data) deliveries
\* of the callback sink are what the calls made one after the other give,
\* whatever the order of the calls, their interleaving and the worker of each.
C15_OutputIndependentOfSchedule ==
  /\ (sink = "u8" /\ U8FrameDone) => rgb = U8Final(cfg, img)
  /\ (sink = "cb" /\ CbFrameDone)
       => deliveries = SequentialDeliveries(cfg, img, next.xextra, next.split)

\* A frame of the callback sink is complete and both workers have gathered
\* rows of it.
C15_Witness ==
  /\ sink = "cb" /\ CbFrameDone /\ cfg.transpose /\ cfg.flip_x
  /\ scratch.f[0] # <<>> /\ scratch.f[1] # <<>>

\* The output coordinates the run invocations of a call cover.
CallCoords(c, im, xextra, u) ==
  UNION { { <<t[4].x + i, t[4].y>> : i \in 0 .. t[4].num_pixels - 1 } :
          t \in UnitRuns(c, im, xextra, u) }

\* The original statement of C16: calls on different (ypos, column range)
\* units write to disjoint parts of the target.  Callback sink: two calls that
\* are in progress at the same time deliver disjoint sets of output
\* coordinates, in every orientation.  Raw buffer sink and the image sinks
\* (xextra = 0): a call stores only to bytes, or plane samples, that no other
\* call of the frame has stored to, whatever the order of the calls.
C16_DisjointWhateverTheBorder ==
  /\ [](sink = "cb"
          => \A f1 \in flight, f2 \in flight :
               f1.thread_id # f2.thread_id
                 => CallCoords(cfg, img, f1.xextra, f1)
                      \cap CallCoords(cfg, img, f2.xextra, f2) = {})
  /\ [][ (sink \in {"u8", "ib", "i3f"} /\ call'.op = "ProcessRow")
           => \A o \in writes' : o \in DOMAIN stores /\ stores[o] = 0 ]_vars

\* C16: as above, the calls of the callback sink having xextra = 0 as well.
C16_ConcurrentWritesDisjoint ==
  /\ [](sink = "cb"
          => \A f1 \in flight, f2 \in flight :
               (f1.thread_id # f2.thread_id /\ f1.xextra = 0 /\ f2.xextra = 0)
                 => CallCoords(cfg, img, 0, f1) \cap CallCoords(cfg, img, 0, f2)
                      = {})
  /\ [][ (sink \in {"u8", "ib", "i3f"} /\ call'.op = "ProcessRow"
            /\ call'.xextra = 0)
           => \A o \in writes' : o \in DOMAIN stores /\ stores[o] = 0 ]_vars

\* Two calls on the two spans of one source row are in progress under a
\* transposing orientation that also flips.
C16_Witness ==
  /\ sink = "cb" /\ cfg.transpose /\ cfg.flip_x /\ cfg.flip_y
  /\ \E f1 \in flight, f2 \in flight :
       /\ f1.thread_id # f2.thread_id /\ f1.ypos = f2.ypos
       /\ f1.xextra = 0 /\ f2.xextra = 0
       /\ f1.pc = "run" /\ f2.pc = "run"

\* The scratch array WriteToCallback reads from for data_type_.
RunBuffer(c, sc, i) == IF c.data_type = "JXL_TYPE_FLOAT" THEN sc.f[i] ELSE sc.u[i]

Count(B, e) == IF e \in DOMAIN B THEN B[e] ELSE 0

\* C17: a ProcessRow call of the callback sink with thread_id t touches the
\* scratch arrays of index t only: an array changes only in a step of a call
\* whose thread_id is its index; while a call is between its gather and its
\* run, the array of its thread_id holds what the call gathered and
\* converted; and the run invocations of the call carry exactly that data,
\* whatever the other workers do in between.
C17_ScratchOwnedByThread ==
  /\ [](\A fl \in flight :
          fl.pc = "run"
            => RunBuffer(cfg, scratch, fl.thread_id)
                 = CbBatch(cfg, img, fl.xextra, fl.xsize, fl.xpos, fl.ypos,
                           fl.b).out)
  /\ [][ /\ \A i \in DOMAIN scratch.f :
              scratch'.f[i] # scratch.f[i]
                => \E fl \in flight :
                     fl.thread_id = i /\ fl.pc = "gather" /\ fl \notin flight'
         /\ \A i \in DOMAIN scratch.u :
              scratch'.u[i] # scratch.u[i]
                => \E fl \in flight :
                     fl.thread_id = i /\ fl.pc = "gather" /\ fl \notin flight'
         /\ \A fl \in flight :
              (fl.pc = "run" /\ fl \notin flight')
                => LET T == {t \in UnitRuns(cfg, img, fl.xextra, fl) :
                               t[2] = fl.b}
                   IN  /\ DOMAIN deliveries' =
                            DOMAIN deliveries \cup {t[4] : t \in T}
                       /\ \A e \in DOMAIN deliveries' :
                            deliveries'[e] =
                              Count(deliveries, e)
                                + Cardinality({t \in T : t[4] = e}) ]_vars

\* Both workers are between gather and run, each with the data of its own
\* span in its own integer scratch array.
C17_Witness ==
  /\ cfg.data_type = "JXL_TYPE_UINT16"
  /\ \E f1 \in flight, f2 \in flight :
       /\ f1.thread_id = 0 /\ f2.thread_id = 1
       /\ f1.pc = "run" /\ f2.pc = "run"
       /\ scratch.u[0] # scratch.u[1] /\ scratch.f[0] # scratch.f[1]

\* The deliveries so far that cover output coordinate (x, y), each as often
\* as it was made.
Covering(x, y) ==
  { p \in UNION { { <<e, n>> : n \in 1 .. deliveries[e] } :
                  e \in DOMAIN deliveries } :
      p[1].y = y /\ x >= p[1].x /\ x < p[1].x + p[1].num_pixels }

\* The size of the output frame.
OutWidth(c) == IF c.transpose THEN c.height ELSE c.width
OutHeight(c) == IF c.transpose THEN c.width ELSE c.height

\* Every output coordinate is delivered at most once, and exactly once when
\* the spans of the frame have all been processed with xextra = 0; nothing is
\* delivered outside the output frame.
CbEachCoordinateOnce ==
  (sink = "cb" /\ next.xextra = 0)
    => /\ \A x \in 0 .. OutWidth(cfg) - 1, y \in 0 .. OutHeight(cfg) - 1 :
            /\ Cardinality(Covering(x, y)) <= 1
            /\ CbFrameDone => Cardinality(Covering(x, y)) = 1
       /\ \A e \in DOMAIN deliveries :
            e.y < OutHeight(cfg) /\ e.x + e.num_pixels <= OutWidth(cfg)

\* The pixel of byte o of the flat buffer: its row, its column, the first
\* column and the length of the span of the driver it lies in.
U8PixelOf(c, o) ==
  LET x == (o % c.stride) \div U8Bytes4(c)
  IN  [y |-> o \div c.stride, x |-> x,
       xpos |-> IF x < c.split THEN 0 ELSE c.split,
       xsize |-> IF x < c.split THEN c.split ELSE c.width - c.split]

\* The original statement of C18: when the spans of a frame have all been
\* processed, every output coordinate of the callback sink was delivered
\* exactly once in each of the eight orientations, and every byte of every
\* pixel of the flat buffer was stored to exactly once.
C18_EveryByteStoredOnce ==
  /\ CbEachCoordinateOnce
  /\ (sink = "u8" /\ U8FrameDone)
       => \A o \in DOMAIN stores :
            U8PixelOf(cfg, o).x < cfg.width => stores[o] = 1

\* The stores one ProcessRow call makes to the bytes of the pixel at index i
\* of its span of xsize pixels: on NEON the store of a whole register reaches
\* four pixels ahead, so a pixel of a complete group of four other than the
\* first is stored to twice.
U8StoresPerCall(c, i, xsize) ==
  IF c.target = "NEON" /\ i >= 4 /\ 4 * (i \div 4) + 4 <= xsize THEN 2 ELSE 1

\* C18: as stated for the callback sink; the raw buffer sink stores to every
\* byte of every pixel in exactly one ProcessRow call, once, or twice where
\* the NEON store of a whole register reaches ahead; bytes of spans not yet
\* processed and the padding of the rows are not stored to.
C18_EachPixelWrittenByOneCall ==
  /\ CbEachCoordinateOnce
  /\ sink = "u8"
       => \A o \in DOMAIN stores :
            LET px == U8PixelOf(cfg, o)
            IN  stores[o] =
                  IF px.x < cfg.width /\ <<px.y, px.xpos>> \in done
                    THEN U8StoresPerCall(cfg, px.x - px.xpos, px.xsize)
                    ELSE 0

\* A frame 9 or more pixels wide has been written on NEON, every row in one
\* call, and the bytes of pixel 4 have been stored to twice.
C18_Witness ==
  /\ sink = "u8" /\ U8FrameDone /\ cfg.target = "NEON"
  /\ cfg.split = cfg.width /\ cfg.width >= 9
  /\ stores[4 * U8Bytes4(cfg)] = 2 /\ stores[0] = 1

\* GetChannelMode of the stage that was constructed.
ModeOf(ch) ==
  CASE sink = "u8"  -> U8GetChannelMode(cfg, ch)
    [] sink = "cb"  -> CbGetChannelMode(cfg, ch)
    [] sink = "ib"  -> IbGetChannelMode(cfg, ch)
    [] sink = "i3f" -> I3fGetChannelMode(cfg, ch)

\* C19: for each of the four sinks, every channel whose input row ProcessRow
\* obtains is a channel for which the sink's GetChannelMode answers Input; no
\* sink answers InOut for any channel; and no step of a sink changes the
\* image the input rows are taken from.
C19_OnlyInputChannelsAreRead ==
  /\ [](/\ \A ch \in reads : ModeOf(ch) = "kInput"
        /\ \A ch \in 0 .. MaxChannel : ModeOf(ch) \in {"kInput", "kIgnored"})
  /\ [][img' = img]_vars

\* The image bundle sink has copied a row of a frame with two extra channels,
\* obtaining the input rows of channels 3 and 4.
C19_Witness ==
  /\ sink = "ib" /\ call.op = "ProcessRow" /\ Len(frame.extra) = 2
  /\ {3, 4} \subseteq reads

\* C20: after SetInputSizes of the image bundle sink has returned for N >= 3
\* sizes, the colour planes of the frame have the size of entry 0 and the frame
\* has exactly N - 3 extra channels, the i-th of the size of entry 3 + i,
\* whatever the frame held before; a second call with the same sizes leaves
\* the same structure.
C20_SetInputSizesRebuildsExtraChannels ==
  (sink = "ib" /\ call.op = "SetInputSizes" /\ call.ok)
    => LET sz == call.input_sizes
       IN  /\ Len(sz) >= 3
           /\ frame.color = sz[1]
           /\ Len(frame.extra) = Len(sz) - 3
           /\ \A i \in 1 .. Len(sz) - 3 : frame.extra[i] = sz[3 + i]

\* SetInputSizes has returned twice, for two extra channels of which one is
\* wider than the frame, on a bundle that held three extra channels.
C20_Witness ==
  /\ sink = "ib" /\ call.op = "SetInputSizes" /\ call.ok /\ next.setups = 2
  /\ Len(call.input_sizes) = 5 /\ call.input_sizes[5] = WiderSize
  /\ ~cfg.asserts

\* The planes a ProcessRow call of an image sink copies to.
ImagePlanes == IF sink = "ib" THEN 0 .. 2 + Len(frame.extra) ELSE 0 .. 2

\* The row and the span of call k, border included, lie in every plane the
\* sink copies to.
InPlanes(k) ==
  /\ k.xpos - k.xextra >= 0
  /\ \A p \in ImagePlanes :
       /\ k.ypos < PlaneSize(frame.color, frame.extra, p)[2]
       /\ k.xpos + k.xsize + k.xextra <= PlaneSize(frame.color, frame.extra, p)[1]

\* C21: a ProcessRow call of the image bundle sink or the Image3F sink leaves
\* in row ypos of every plane it handles (the 3 colour planes; for the image
\* bundle sink also extra channel ec, from input channel 3 + ec), at columns
\* xpos - xextra .. xpos + xsize + xextra - 1, the input samples of those
\* columns, unchanged, and leaves every other sample of the target as it was.
C21_RowCopiedWithBorder ==
  [][ (sink \in {"ib", "i3f"} /\ call'.op = "ProcessRow" /\ InPlanes(call'))
        => /\ alive'
           /\ frame'.color = frame.color /\ frame'.extra = frame.extra
           /\ \A sa \in DOMAIN frame.data :
                IF /\ sa[1] \in ImagePlanes /\ sa[3] = call'.ypos
                   /\ sa[2] >= call'.xpos - call'.xextra
                   /\ sa[2] < call'.xpos + call'.xsize + call'.xextra
                  THEN frame'.data[sa] = Pix(img, sa[1], sa[2], sa[3])
                  ELSE frame'.data[sa] = frame.data[sa] ]_vars

\* The image bundle sink has copied the middle column of a row with a border
\* of one sample to the colour planes and to two extra channels.
C21_Witness ==
  /\ sink = "ib" /\ call.op = "ProcessRow" /\ alive
  /\ call.xextra = 1 /\ call.xpos = 1 /\ call.xsize = 1 /\ call.ypos = 1
  /\ Len(frame.extra) = 2
  /\ \A p \in 0 .. 4, x \in 0 .. 2 : frame.data[<<p, x, 1>>] = Pix(img, p, x, 1)
  /\ \A p \in 0 .. 4, x \in 0 .. 2 : frame.data[<<p, x, 0>>] = Untouched

\* The code value the stage model computes for a sample of the image grid.
CoarseCode(mul, v) ==
  IF mul = 255 THEN ToU8(v) ELSE U16Bytes(v)[1] + 256 * U16Bytes(v)[2]

\* C22: for every sample v in [0, 1] the uint8 code n8(v) = round(255 *
\* clamp(v, 0, 1)) is within 1/255 of v when divided by 255, and the uint16
\* code n16(v) = round(65535 * clamp(v, 0, 1)) within 1/65535 when divided by
\* 65535; both codes do not decrease when v grows, 0 gives code 0 and 1 gives
\* the largest code.  (|n/mul - v/FineDen| <= 1/mul is |n * FineDen - v *
\* mul| <= FineDen.)  On the samples of the image grid the code is the one
\* ToU8 and U16Bytes give.
C22_NarrowingErrorAndMonotone ==
  (sink = "narrow" /\ call.op = "Narrow")
    => /\ call.code \in 0 .. cfg.mul
       /\ call.code <= call.above
       /\ (call.v >= 0 /\ call.v <= FineDen)
            => /\ Abs(call.code * FineDen - call.v * cfg.mul) <= FineDen
               /\ call.v = 0 => call.code = 0
               /\ call.v = FineDen => call.code = cfg.mul
       /\ call.v % (FineDen \div SampleDen) = 0
            => call.code = CoarseCode(cfg.mul, call.v \div (FineDen \div SampleDen))

\* A sample strictly between 0 and 1 whose product with 65535 does not fit
\* the 24 bits of a binary32 significand was narrowed to uint16, to a code
\* that is not the code of the sample above it.
C22_Witness ==
  /\ sink = "narrow" /\ call.op = "Narrow" /\ cfg.mul = 65535
  /\ call.v > 0 /\ call.v < FineDen
  /\ call.v * 65535 >= 2 ^ 24 /\ RoundF32(call.v * 65535) # call.v * 65535
  /\ call.code < call.above

\* The pixels of the frame in the span of the most recent call, each at its
\* callback coordinate with its samples clamped to [0, 1] and then encoded.
ClampedPixels ==
  LET first == call.xpos - call.xextra
      inframe == {x \in first .. first + CbSpanLen(cfg, call) - 1 :
                    x >= 0 /\ x < cfg.width}
  IN  { <<Oriented(cfg.undo_orientation, cfg.width, cfg.height, x, call.ypos),
          [ch \in 0 .. cfg.num_channels - 1 |->
             Convert(cfg, Clamp(0, CbSource(cfg, img, ch, x, call.ypos), One))]>> :
        x \in inframe }

\* C23 (as the specification states it): for each of the output types
\* float16, uint16 and uint8 of the callback sink every input sample is
\* clamped to [0, 1] before it is encoded: a sample below 0 is delivered as
\* the encoding of 0, a sample above 1 as the encoding of 1.
C23_NarrowedTypesClamp ==
  (sink = "cb" /\ call.op = "ProcessRow" /\ call.ypos < cfg.height
     /\ cfg.data_type \in {"JXL_TYPE_FLOAT16", "JXL_TYPE_UINT16",
                           "JXL_TYPE_UINT8"})
    => ClampedPixels \subseteq {<<RunCoord(ip), RunSamples(ip)>> : ip \in RunPixels}

\* The samples of the pixel of source column col of row y once it is
\* unpremultiplied: the colour samples divided by the alpha of that pixel, and
\* the alpha.
UnpremulPixel(c, im, col, y) ==
  [ch \in 0 .. c.num_channels - 1 |->
     IF ch < c.num_color
       THEN Unpremultiplied(Pix(im, ch, col, y), Pix(im, c.alpha_c, col, y))
       ELSE Pix(im, c.alpha_c, col, y)]

\* Pixel k of a scratch array, and the source column of the pixel that call
\* fl gathered as pixel k of its batch.
BufPixel(buf, num_channels, k) ==
  [ch \in 0 .. num_channels - 1 |-> buf[k * num_channels + ch + 1]]
StepColumn(fl, k) == fl.xpos - fl.xextra + fl.b * kMaxPixelsPerCall + k

\* The order of the statements of a batch.
StepOrder ==
  { <<"gather", "unpremul">>, <<"unpremul", "flip">>, <<"flip", "narrow">>,
    <<"narrow", "swap">>, <<"swap", "run">>, <<"run", "gather">> }

\* C24: within a batch of the callback sink the steps are taken in the order
\* gather, alpha unpremultiplication, horizontal flip, numeric narrowing, byte
\* swap, Run.  After the unpremultiplication tempf_ holds, in the order of
\* the source columns and as floats, every pixel with its colour divided by
\* that pixel's own alpha; the flip moves the colour and the alpha of a pixel
\* together; the narrowing and then the byte swap are applied to those
\* samples, and Run is handed the result.
C24_StepsInFixedOrder ==
  /\ [](\A fl \in flight :
          (cfg.has_alpha /\ cfg.want_alpha /\ cfg.unpremul_alpha)
            => LET nc == cfg.num_channels
                   tempf == scratch.f[fl.thread_id]
                   Pos(k) == IF cfg.flip_x THEN fl.xlen - 1 - k ELSE k
                   Float(k) == UnpremulPixel(cfg, img, StepColumn(fl, Pos(k)),
                                             fl.ypos)
               IN  /\ fl.pc = "flip"
                        => \A k \in 0 .. fl.xlen - 1 :
                             BufPixel(tempf, nc, k)
                               = UnpremulPixel(cfg, img, StepColumn(fl, k), fl.ypos)
                   /\ fl.pc = "narrow"
                        => \A k \in 0 .. fl.xlen - 1 :
                             BufPixel(tempf, nc, k) = Float(k)
                   /\ fl.pc = "swap"
                        => \A k \in 0 .. fl.xlen - 1 :
                             BufPixel(RunBuffer(cfg, scratch, fl.thread_id), nc, k)
                               = [ch \in 0 .. nc - 1 |->
                                    ConvertSample(cfg.data_type, FALSE, Float(k)[ch])]
                   /\ fl.pc = "run"
                        => \A k \in 0 .. fl.xlen - 1 :
                             BufPixel(RunBuffer(cfg, scratch, fl.thread_id), nc, k)
                               = [ch \in 0 .. nc - 1 |->
                                    ConvertSample(cfg.data_type,
                                                  cfg.swap_endianness, Float(k)[ch])])
  /\ [][ /\ \A fl \in flight, fn \in flight' :
              fl.pc # fn.pc => <<fl.pc, fn.pc>> \in StepOrder
         /\ \A fn \in flight' : flight = {} => fn.pc = "gather"
         /\ \A fl \in flight : flight' = {} => fl.pc = "run"
         /\ \A fl \in flight :
              deliveries' # deliveries
                => /\ fl.pc = "run"
                   /\ \A e \in DOMAIN deliveries' \ DOMAIN deliveries :
                        \E k \in 0 .. fl.xlen - 1 :
                          BufPixel(e.data, cfg.num_channels, 0)
                            = BufPixel(RunBuffer(cfg, scratch, fl.thread_id),
                                       cfg.num_channels, k) ]_vars

\* A batch of three pixels of which one has alpha 1/4 has been
\* unpremultiplied and flipped and is about to be narrowed to uint8: its
\* first pixel is the unpremultiplied last pixel of the span.
C24_Witness ==
  /\ sink = "cb" /\ cfg.unpremul_alpha /\ cfg.flip_x
  /\ cfg.data_type = "JXL_TYPE_UINT8" /\ cfg.num_channels = 4
  /\ \E fl \in flight :
       /\ fl.pc = "narrow" /\ fl.xlen = 3
       /\ \E k \in 0 .. 2 : Pix(img, cfg.alpha_c, StepColumn(fl, k), fl.ypos) = 2
       /\ BufPixel(scratch.f[0], 4, 0)
            = UnpremulPixel(cfg, img, StepColumn(fl, 2), fl.ypos)
       /\ BufPixel(scratch.f[0], 4, 0)
            # [ch \in 0 .. 3 |-> CbSource(cfg, img, ch, StepColumn(fl, 2), fl.ypos)]

\* How often handle h was passed to pixel_callback_.destroy.
TimesDestroyed(h) == Cardinality({d \in 1 .. Len(destroys) : destroys[d] = h})

\* C25 (as stated): on every sequence of PrepareForThreads calls followed by
\* the teardown of the callback sink, PrepareForThreads invoked more than once
\* and an Init failure after an Init success included, every non-null handle
\* that Init returned is passed to Destroy exactly once.
C25_EveryHandleDestroyedOnce ==
  (sink = "cb" /\ ~alive)
    => \A k \in 1 .. Len(inits) :
         inits[k].handle # 0 => TimesDestroyed(inits[k].handle) = 1

\* C26 (as stated): in a build with assertions SetInputSizes of the image
\* bundle sink and of the Image3F sink aborts exactly when fewer than 3 sizes
\* are given or the (width, height) pairs of the three colour channels are not
\* all equal; the sizes of the extra channels (index 3 and up) never cause an
\* abort, and both sinks apply the same test.
C26_AbortsOnColourMismatchOnly ==
  (sink \in {"ib", "i3f"} /\ cfg.asserts /\ call.op = "SetInputSizes")
    => LET sz == call.input_sizes
       IN  call.ok <=> (Len(sz) >= 3 /\ sz[2] = sz[1] /\ sz[3] = sz[1])

\* C27: a ProcessRow call of the image bundle sink or the Image3F sink whose
\* ypos is at or beyond the height of the planes allocated by SetInputSizes,
\* or whose columns xpos - xextra .. xpos + xsize + xextra - 1 go beyond their
\* width, stores nothing outside the allocated planes.
C27_NothingStoredOutsidePlanes ==
  (sink \in {"ib", "i3f"} /\ call.op = "ProcessRow" /\ ~InPlanes(call))
    => writes \subseteq DOMAIN frame.data

\* C28: in every ProcessRow call of the callback sink with xextra = 0 and
\* ypos < height, whatever xpos and xsize are (the span may end beyond the
\* width and may begin beyond it, width_ - xpos being a size_t), only source
\* pixels of columns below width are gathered for delivery, and every run
\* invocation has x + num_pixels <= output width and y < output height, the
\* output width and height being height and width when the stage transposes.
C28_DeliveredWithinFrame ==
  (sink = "cb" /\ call.op = "ProcessRow" /\ call.xextra = 0
     /\ call.ypos < cfg.height)
    => /\ \A fl \in flight :
            fl.pc # "gather" => StepColumn(fl, fl.xlen - 1) < cfg.width
       /\ \A e \in DOMAIN deliveries :
            e.y < OutHeight(cfg) /\ e.x + e.num_pixels <= OutWidth(cfg)

\* The bytes of a sample in reverse order, and a delivery with every sample
\* of it reversed.
Reversed(b) == [i \in 1 .. Len(b) |-> b[Len(b) + 1 - i]]
SwappedAgain(e) == [e EXCEPT !.data = [j \in 1 .. Len(@) |-> Reversed(@[j])]]

\* The run invocations the call would make on the same stage built with
\* swap_endianness = false.
PlainRuns ==
  { t[4] : t \in UnitRuns([cfg EXCEPT !.swap_endianness = FALSE], img,
                          call.xextra, call) }

\* C29: in the callback sink swap_endianness reverses the bytes of every
\* delivered sample for float32, float16 and uint16 output and leaves uint8
\* output as it is; for every type the output with swap_endianness = true,
\* each sample byte-swapped again, is the output with swap_endianness =
\* false; coordinates, num_pixels and the order of the samples are the same
\* with and without the swap.
C29_SwapReversesSampleBytes ==
  (sink = "cb" /\ call.op = "ProcessRow" /\ cfg.swap_endianness
     /\ ~BeyondHeight(cfg, call.ypos))
    => LET AsPlain(e) == IF cfg.data_type # "JXL_TYPE_UINT8"
                           THEN SwappedAgain(e) ELSE e
       IN  /\ \A e \in DOMAIN deliveries :
                AsPlain(e) \in PlainRuns /\ SwappedAgain(e) \in PlainRuns
           /\ flight = {}
                => PlainRuns = { AsPlain(e) : e \in DOMAIN deliveries }

\* A call on a stage with swap_endianness and float16 output has delivered a
\* batch of 3 pixels in which some sample is not the same read backwards.
C29_Witness ==
  /\ sink = "cb" /\ call.op = "ProcessRow" /\ flight = {}
  /\ cfg.swap_endianness /\ cfg.data_type = "JXL_TYPE_FLOAT16"
  /\ \E e \in DOMAIN deliveries :
       /\ e.num_pixels = 3
       /\ \E j \in 1 .. Len(e.data) : Reversed(e.data[j]) # e.data[j]
       /\ SwappedAgain(e) \in PlainRuns /\ e \notin PlainRuns

\* "AllocateArray(sizeof(float) * kMaxPixelsPerCall * num_channels_)" for
\* tempf_ and "AllocateArray(sizeof(uint16_t) * kMaxPixelsPerCall *
\* num_channels_)" for tempu_: the number of floats, and of 16-bit elements,
\* an array has room for (of uint8 elements, twice as many).
ScratchCapacity(c) == kMaxPixelsPerCall * c.num_channels

\* C30: in a ProcessRow call of the callback sink made after a successful
\* PrepareForThreads(num_threads) with thread_id < num_threads every access
\* to the scratch memory is in bounds: the call uses arrays that exist, at
\* most 1024 * num_channels samples are gathered into tempf_, the conversion
\* loops, which advance by whole vectors, load and store at most 1024 *
\* num_channels elements of tempf_ and tempu_, opaque_alpha_ is read at
\* positions 0 .. 1023 only, and tempu_ is accessed only for the data types
\* it is allocated for.
C30_ScratchAccessesInBounds ==
  \A fl \in flight :
    (sink = "cb" /\ fl.thread_id < num_threads)
      => /\ fl.thread_id \in DOMAIN scratch.f
         /\ Len(scratch.f[fl.thread_id]) <= ScratchCapacity(cfg)
         /\ fl.ftop <= ScratchCapacity(cfg)
         /\ fl.utop <= ScratchCapacity(cfg)
         /\ fl.atop <= kMaxPixelsPerCall
         /\ fl.utop > 0
              => /\ cfg.data_type # "JXL_TYPE_FLOAT"
                 /\ fl.thread_id \in DOMAIN scratch.u
                 /\ Len(scratch.u[fl.thread_id]) <= ScratchCapacity(cfg)

\* On a stage with vectors of 16 floats, 4 channels and no alpha plane the
\* call is in its last batch, which is not a whole number of vectors, after
\* full batches that used every element of tempf_, tempu_ and opaque_alpha_.
C30_Witness ==
  /\ sink = "cb" /\ cfg.lanes = 16 /\ cfg.num_channels = 4 /\ ~cfg.has_alpha
  /\ cfg.data_type = "JXL_TYPE_UINT16"
  /\ \E fl \in flight :
       /\ fl.thread_id < num_threads /\ fl.b = 2 /\ fl.pc = "swap"
       /\ LanesTouched(fl.xlen * cfg.num_channels, cfg.lanes)
            > fl.xlen * cfg.num_channels
       /\ fl.ftop = ScratchCapacity(cfg) /\ fl.utop = ScratchCapacity(cfg)
       /\ fl.atop = kMaxPixelsPerCall
====
